---- MODULE Spec2Model ----
(***************************************************************************)
(* Model of the circuit transforms of the differentiable-quantum-transforms *)
(* notebooks: the tape-to-tape transforms (unitary_folding, convert_cnots,   *)
(* overrotate_rx, square_root_rx), the zne batch transform and its          *)
(* least-squares combiner fit_zne.                                          *)
(*                                                                         *)
(* Numbers are exact rationals [kind, n, d] with the non-finite values of   *)
(* IEEE arithmetic (nan, inf) kept as separate kinds; the sign of a zero    *)
(* is not modelled.  Operators and measurement processes are records that   *)
(* carry an object identity (id): qml.apply queues the very object it is    *)
(* given, a constructor or a copy makes a new object.                       *)
(***************************************************************************)
EXTENDS Integers, Sequences, FiniteSets, TLC

VARIABLES
    tape,           \* the tape recorded from the quantum function (the input)
    inp,            \* the tape handed to the last transform call
    out,            \* the tape the last transform call returned
    call,           \* the last transform call: [fn, arg]
    nextId,         \* the next unused object identity
    depth,          \* number of transforms applied so far
    dag,            \* the nodes of the DAG handed to the Qiskit pass
    arg_after,      \* the object passed to the last call, as it is afterwards
    aliased,        \* whether the last call returned the object it was passed
    queued,         \* the objects queued during the last call, in queue order
    pipeline,       \* the transforms of the last pipeline call: [fn, arg] each
    scale_factors,  \* the caller's list object passed to zne
    tapes,          \* the branch tapes returned by zne
    branch_scales,  \* history: the scale each branch tape was built with
    processing_fn,  \* the combiner returned by zne: [fn, bound]
    results,        \* the execution results handed to the combiner
    used_scales,    \* history: the scale factors fit_zne read when called
    fitted,         \* what the last fit_zne call produced
    attempted,      \* the scale factors tape_fn was called with by the last zne
    executed,       \* log of the device: [branch, tapes, values] per branch
    coeff_groupings,\* the coefficients held by hamiltonian_expand's combiner
    zpc             \* position of the caller of a batch transform: "start",
                    \* "forked", "combined"; "executing", "returned" in a QNode

vars == <<tape, inp, out, call, nextId, depth, dag, arg_after, aliased,
          queued, pipeline, scale_factors, tapes, branch_scales,
          processing_fn, results, used_scales, fitted, attempted, executed,
          coeff_groupings, zpc>>

tvars == <<tape, inp, out, call, nextId, depth, dag, arg_after, aliased,
           queued, pipeline>>
zvars == <<scale_factors, tapes, branch_scales, processing_fn, results,
           used_scales, fitted, attempted, executed, coeff_groupings, zpc>>

-----------------------------------------------------------------------------
(* Bounds of the model *)

MaxOps == 2        \* longest recorded gate list
MaxDepth == 1      \* number of transforms applied one after the other
MaxScales == 3     \* longest scale_factors / results list drawn at random
MaxPipeline == 2   \* longest pipeline of transforms
MaxTerms == 3      \* most terms of a Hamiltonian
MaxIters == 3      \* iterations of the optimisation loop (300 in the notebook)
MaxShots == 2      \* shots of one finite-difference gradient (N = 1000)

-----------------------------------------------------------------------------
(* Numbers *)

Abs(x) == IF x < 0 THEN -x ELSE x

Sign(x) == IF x < 0 THEN -1 ELSE IF x > 0 THEN 1 ELSE 0

RECURSIVE GCD(_, _)
GCD(a, b) == IF b = 0 THEN a ELSE GCD(b, a % b)

\* the rational n/d (d # 0) in lowest terms with a positive denominator
Rat(n, d) ==
    LET g == GCD(Abs(n), Abs(d))
        s == IF d < 0 THEN -1 ELSE 1
    IN  [kind |-> "num", n |-> (s * n) \div g, d |-> (s * d) \div g]

NaN == [kind |-> "nan", n |-> 0, d |-> 1]

Inf(sign) == [kind |-> "inf", n |-> sign, d |-> 1]

IsNum(a) == a.kind = "num"

Neg(a) == IF IsNum(a) THEN Rat(-a.n, a.d)
          ELSE IF a.kind = "inf" THEN Inf(-a.n) ELSE NaN

Add(a, b) ==
    IF a.kind = "nan" \/ b.kind = "nan" THEN NaN
    ELSE IF a.kind = "inf" /\ b.kind = "inf"
         THEN IF a.n = b.n THEN a ELSE NaN
    ELSE IF a.kind = "inf" THEN a
    ELSE IF b.kind = "inf" THEN b
    ELSE Rat(a.n * b.d + b.n * a.d, a.d * b.d)

Sub(a, b) == Add(a, Neg(b))

Mul(a, b) ==
    IF a.kind = "nan" \/ b.kind = "nan" THEN NaN
    ELSE IF a.kind = "inf" \/ b.kind = "inf"
         THEN IF a.n = 0 \/ b.n = 0 THEN NaN ELSE Inf(Sign(a.n) * Sign(b.n))
    ELSE Rat(a.n * b.n, a.d * b.d)

\* numpy true division: x/0 is nan for x = 0 and an infinity otherwise
Div(a, b) ==
    IF a.kind = "nan" \/ b.kind = "nan" THEN NaN
    ELSE IF a.kind = "inf"
         THEN IF b.kind = "inf" THEN NaN
              ELSE Inf(a.n * (IF b.n < 0 THEN -1 ELSE 1))
    ELSE IF b.kind = "inf" THEN Rat(0, 1)
    ELSE IF b.n = 0
         THEN IF a.n = 0 THEN NaN ELSE Inf(Sign(a.n))
    ELSE Rat(a.n * b.d, a.d * b.n)

Int2Num(k) == Rat(k, 1)

\* largest r in lo..hi with r * r <= x, for lo * lo <= x < (hi + 1) * (hi + 1)
RECURSIVE ISqrtIn(_, _, _)
ISqrtIn(x, lo, hi) ==
    IF lo >= hi THEN lo
    ELSE LET mid == (lo + hi + 1) \div 2
         IN  IF mid * mid <= x THEN ISqrtIn(x, mid, hi)
             ELSE ISqrtIn(x, lo, mid - 1)

ISqrt(x) == ISqrtIn(x, 0, 46340)

\* math.sqrt: nan below zero; exact on squares of rationals, otherwise cut
\* to a multiple of 1/1000
Sqrt(a) ==
    IF a.kind = "nan" THEN NaN
    ELSE IF a.kind = "inf" THEN (IF a.n > 0 THEN a ELSE NaN)
    ELSE IF a.n < 0 THEN NaN
    ELSE LET rn == ISqrt(a.n)
             rd == ISqrt(a.d)
         IN  IF rn * rn = a.n /\ rd * rd = a.d THEN Rat(rn, rd)
             ELSE Rat(ISqrt((a.n * 1000 * 1000) \div a.d), 1000)

\* variant: ties are rounded up
Round_HalfUp(a) ==
    LET f == a.n \div a.d
        r == a.n - f * a.d
    IN  IF 2 * r < a.d THEN f ELSE f + 1

\* math.round on a finite number: nearest integer, ties to the even one
Round(a) ==
    LET f == a.n \div a.d
        r == a.n - f * a.d
    IN  IF 2 * r < a.d THEN f
        ELSE IF 2 * r > a.d THEN f + 1
        ELSE IF f % 2 = 0 THEN f ELSE f + 1

-----------------------------------------------------------------------------
(* Operators, measurement processes, tapes and the recording queue *)

Op(id, name, wires, data) ==
    [id |-> id, kind |-> "op", name |-> name, wires |-> wires,
     data |-> data, rtype |-> ""]

\* a measurement process; its name attribute is "Identity" and it has no data
Meas(id, rtype, wires) ==
    [id |-> id, kind |-> "meas", name |-> "Identity", wires |-> wires,
     data |-> <<>>, rtype |-> rtype]

IsOp(x) == x.kind = "op"
IsMeas(x) == x.kind = "meas"

\* a queue under recording: the queued objects and the next fresh identity
Queue(items, next) == [items |-> items, next |-> next]

\* a tape built from a queue sorts the queued objects by type
TapeOf(q) == [operations |-> SelectSeq(q.items, IsOp),
              measurements |-> SelectSeq(q.items, IsMeas)]

\* variant: iterating a tape yields its operations only
Circuit_OperationsOnly(t) == t.operations

\* iterating a tape yields its operations, then its measurements
Circuit(t) == t.operations \o t.measurements

Queued(q, x) == \E i \in 1..Len(q.items) : q.items[i].id = x.id

\* constructing an operator inside a recording context queues the new object
New(q, name, wires, data) ==
    Queue(Append(q.items, Op(q.next, name, wires, data)), q.next + 1)

\* qml.apply: queues the object itself, or a copy when it is queued already
Apply(q, x) ==
    IF Queued(q, x)
    THEN Queue(Append(q.items, [x EXCEPT !.id = q.next]), q.next + 1)
    ELSE Queue(Append(q.items, x), q.next)

\* op.adjoint(): a new operator; rotations negate their angle, the other
\* gates of the model are self-adjoint
\* variant: the adjoint of a rotation keeps its angle
AdjointData_SameAngle(name, data) == data

AdjointData(name, data) ==
    IF name \in {"RX", "RY", "RZ"} THEN <<Neg(data[1])>> ELSE data

Adjoint(q, x) == New(q, x.name, x.wires, AdjointData(x.name, x.data))

\* variant: the operations are walked in their original order
Reverse_Forward(s) == s

Reverse(s) == [i \in 1..Len(s) |-> s[Len(s) + 1 - i]]

\* Every loop of the source is "for x in s: <body>".  The model walks the
\* range lo..hi of s in order, split in halves to keep the evaluation shallow;
\* the test on q.next is always true and makes TLC evaluate the queue handed
\* in before the loop starts.

\* for op in s: qml.apply(op)
RECURSIVE ApplyRange(_, _, _, _)
ApplyRange(q, s, lo, hi) ==
    IF q.next > 0 /\ lo > hi THEN q
    ELSE IF lo = hi THEN Apply(q, s[lo])
    ELSE LET mid == (lo + hi) \div 2
         IN  ApplyRange(ApplyRange(q, s, lo, mid), s, mid + 1, hi)

ApplyAll(q, s) == ApplyRange(q, s, 1, Len(s))

\* for op in s: op.adjoint()
RECURSIVE AdjointRange(_, _, _, _)
AdjointRange(q, s, lo, hi) ==
    IF q.next > 0 /\ lo > hi THEN q
    ELSE IF lo = hi THEN Adjoint(q, s[lo])
    ELSE LET mid == (lo + hi) \div 2
         IN  AdjointRange(AdjointRange(q, s, lo, mid), s, mid + 1, hi)

AdjointAll(q, s) == AdjointRange(q, s, 1, Len(s))

-----------------------------------------------------------------------------
(* The transforms *)

\* num_folds = math.round((scale_factor - 1.0) / 2.0)
NumFolds(scale_factor) ==
    Round(Div(Sub(scale_factor, Int2Num(1)), Int2Num(2)))

\* for _ in range(int(num_folds)): adjoints of the reversed list, then the list
RECURSIVE FoldLoop(_, _, _)
FoldLoop(q, t, n) ==
    IF q.next > 0 /\ n <= 0 THEN q
    ELSE FoldLoop(ApplyAll(AdjointAll(q, Reverse(t.operations)), t.operations),
                  t, n - 1)

\* variant: the gate parameters are multiplied by the scale factor
unitary_folding_ScaledAngles(t, scale_factor, next) ==
    LET Scaled(x) == [x EXCEPT !.data = [j \in 1..Len(x.data) |->
                                            Mul(x.data[j], scale_factor)]]
        ts == [operations |-> [i \in 1..Len(t.operations) |->
                                  Scaled(t.operations[i])],
               measurements |-> t.measurements]
        q0 == ApplyAll(Queue(<<>>, next), ts.operations)
        q1 == FoldLoop(q0, ts, NumFolds(scale_factor))
    IN  ApplyAll(q1, ts.measurements)

\* variant: the measurements are queued before the folds
unitary_folding_MeasurementsFirst(t, scale_factor, next) ==
    LET q0 == ApplyAll(Queue(<<>>, next), t.operations)
        q1 == ApplyAll(q0, t.measurements)
    IN  FoldLoop(q1, t, NumFolds(scale_factor))

unitary_folding(t, scale_factor, next) ==
    LET q0 == ApplyAll(Queue(<<>>, next), t.operations)
        q1 == FoldLoop(q0, t, NumFolds(scale_factor))
    IN  ApplyAll(q1, t.measurements)

\* variant: the closing Hadamard is left out
ConvertCnot_OneHadamard(q, x) ==
    IF x.name = "CNOT"
    THEN New(New(q, "Hadamard", <<x.wires[2]>>, <<>>),
             "CZ", <<x.wires[1], x.wires[2]>>, <<>>)
    ELSE Apply(q, x)

ConvertCnot(q, x) ==
    IF x.name = "CNOT"
    THEN New(New(New(q, "Hadamard", <<x.wires[2]>>, <<>>),
                 "CZ", <<x.wires[1], x.wires[2]>>, <<>>),
             "Hadamard", <<x.wires[2]>>, <<>>)
    ELSE Apply(q, x)

RECURSIVE ConvertCnotsLoop(_, _, _, _)
ConvertCnotsLoop(q, s, lo, hi) ==
    IF q.next > 0 /\ lo > hi THEN q
    ELSE IF lo = hi THEN ConvertCnot(q, s[lo])
    ELSE LET mid == (lo + hi) \div 2
         IN  ConvertCnotsLoop(ConvertCnotsLoop(q, s, lo, mid), s, mid + 1, hi)

\* the single_tape_transform version
convert_cnots(t, next) ==
    ConvertCnotsLoop(Queue(<<>>, next), Circuit(t), 1, Len(Circuit(t)))

QfuncConvertCnot(q, x) ==
    IF x.name = "CNOT"
    THEN New(New(New(q, "Hadamard", <<x.wires[2]>>, <<>>),
                 "CZ", <<x.wires[1], x.wires[2]>>, <<>>),
             "Hadamard", <<x.wires[2]>>, <<>>)
    ELSE Apply(q, x)

RECURSIVE QfuncConvertCnotsLoop(_, _, _, _)
QfuncConvertCnotsLoop(q, s, lo, hi) ==
    IF q.next > 0 /\ lo > hi THEN q
    ELSE IF lo = hi THEN QfuncConvertCnot(q, s[lo])
    ELSE LET mid == (lo + hi) \div 2
         IN  QfuncConvertCnotsLoop(QfuncConvertCnotsLoop(q, s, lo, mid), s, mid + 1, hi)

\* the qfunc_transform version
qfunc_convert_cnots(t, next) ==
    QfuncConvertCnotsLoop(Queue(<<>>, next), Circuit(t), 1, Len(Circuit(t)))

\* variant: the name test also catches RY
OverrotateRx_AnyRotation(q, x, epsilon) ==
    IF x.name \in {"RX", "RY"}
    THEN New(q, "RX", <<x.wires[1]>>, <<Add(x.data[1], epsilon)>>)
    ELSE Apply(q, x)

OverrotateRx(q, x, epsilon) ==
    IF x.name = "RX"
    THEN New(q, "RX", <<x.wires[1]>>, <<Add(x.data[1], epsilon)>>)
    ELSE Apply(q, x)

RECURSIVE OverrotateRxLoop(_, _, _, _, _)
OverrotateRxLoop(q, s, epsilon, lo, hi) ==
    IF q.next > 0 /\ lo > hi THEN q
    ELSE IF lo = hi THEN OverrotateRx(q, s[lo], epsilon)
    ELSE LET mid == (lo + hi) \div 2
         IN  OverrotateRxLoop(OverrotateRxLoop(q, s, epsilon, lo, mid), s, epsilon, mid + 1, hi)

overrotate_rx(t, epsilon, next) ==
    OverrotateRxLoop(Queue(<<>>, next), Circuit(t), epsilon, 1, Len(Circuit(t)))

SquareRootRx(q, x) ==
    IF x.name = "RX"
    THEN New(q, "RX", <<x.wires[1]>>, <<Sqrt(x.data[1])>>)
    ELSE Apply(q, x)

RECURSIVE SquareRootRxLoop(_, _, _, _)
SquareRootRxLoop(q, s, lo, hi) ==
    IF q.next > 0 /\ lo > hi THEN q
    ELSE IF lo = hi THEN SquareRootRx(q, s[lo])
    ELSE LET mid == (lo + hi) \div 2
         IN  SquareRootRxLoop(SquareRootRxLoop(q, s, lo, mid), s, mid + 1, hi)

square_root_rx(t, next) ==
    SquareRootRxLoop(Queue(<<>>, next), Circuit(t), 1, Len(Circuit(t)))

\* variant: the name test also catches ry
RunNode_AnyRotation(node, angle) ==
    IF node.name \in {"rx", "ry"}
    THEN [node EXCEPT !.data = [node.data EXCEPT ![1] = Add(node.data[1], angle)]]
    ELSE node

\* OverrotateRX.run, one node: node.op.params[0] += self.angle writes into the
\* parameter list of the node's own instruction
RunNode(node, angle) ==
    IF node.name = "rx"
    THEN [node EXCEPT !.data = [node.data EXCEPT ![1] = Add(node.data[1], angle)]]
    ELSE node

\* for node in dag.op_nodes(): ...; return dag.  The nodes are updated in
\* place and the DAG passed in is the object returned.
OverrotateRX_run(nodes, angle) ==
    [i \in 1..Len(nodes) |-> RunNode(nodes[i], angle)]

-----------------------------------------------------------------------------
(* The least-squares combiner and the zne batch transform *)

Raised == [kind |-> "error", n |-> 0, d |-> 1]

\* math.sum over a one-dimensional array
RECURSIVE Sum(_, _)
Sum(a, i) == IF i > Len(a) THEN Int2Num(0) ELSE Add(a[i], Sum(a, i + 1))

\* numpy broadcasting of two one-dimensional shapes
Broadcastable(a, b) == Len(a) = Len(b) \/ Len(a) = 1 \/ Len(b) = 1

\* variant: the first scale factor multiplies every energy
Multiply_FirstScale(a, b) == [i \in 1..Len(b) |-> Mul(a[1], b[i])]

\* math.multiply(a, b) on broadcastable one-dimensional arrays
Multiply(a, b) ==
    LET n == IF Len(a) >= Len(b) THEN Len(a) ELSE Len(b)
    IN  [i \in 1..n |-> Mul(IF Len(a) = 1 THEN a[1] ELSE a[i],
                            IF Len(b) = 1 THEN b[1] ELSE b[i])]

\* variant: scale_factors * 2
Square_Doubled(a) == [i \in 1..Len(a) |-> Mul(Int2Num(2), a[i])]

\* scale_factors ** 2
Square(a) == [i \in 1..Len(a) |-> Mul(a[i], a[i])]

fit_zne(scales, energies) ==
    IF Len(scales) = 0 \/ Len(energies) = 0 THEN Raised      \* math.stack([])
    ELSE IF ~Broadcastable(scales, energies) THEN Raised     \* math.multiply
    ELSE
    LET N == Int2Num(Len(energies))
        sum_scales == Sum(scales, 1)
        sum_energies == Sum(energies, 1)
        numerator == Sub(Mul(N, Sum(Multiply(scales, energies), 1)),
                         Mul(sum_scales, sum_energies))
        denominator == Sub(Mul(N, Sum(Square(scales), 1)),
                           Mul(sum_scales, sum_scales))
        slope == Div(numerator, denominator)
        intercept == Div(Sub(sum_energies, Mul(slope, sum_scales)), N)
    IN  intercept

\* mitigation_transform.tape_fn(tape, scale)
TapeFn(mt, t, scale, next) ==
    IF mt = "unitary_folding" THEN unitary_folding(t, scale, next)
    ELSE IF mt = "convert_cnots" THEN qfunc_convert_cnots(t, next)
    ELSE IF mt = "square_root_rx" THEN square_root_rx(t, next)
    ELSE overrotate_rx(t, scale, next)

\* unitary_folding raises when its fold count is no integer: int(num_folds)
\* is a ValueError for nan and an OverflowError for an infinity
Fails(mt, scale) == mt = "unitary_folding" /\ ~IsNum(scale)

\* variant: a scale factor the transform fails on is skipped
RECURSIVE ZneTapes_SkipFailed(_, _, _, _, _, _)
ZneTapes_SkipFailed(t, mt, scales, i, acc, next) ==
    IF i > Len(scales)
    THEN [tapes |-> acc, next |-> next, raised |-> FALSE, calls |-> i - 1]
    ELSE IF Fails(mt, scales[i])
    THEN ZneTapes_SkipFailed(t, mt, scales, i + 1, acc, next)
    ELSE LET q == TapeFn(mt, t, scales[i], next)
         IN  ZneTapes_SkipFailed(t, mt, scales, i + 1, Append(acc, TapeOf(q)),
                                 q.next)

\* tapes = [mitigation_transform.tape_fn(tape, scale) for scale in scale_factors]
\* calls counts the calls of tape_fn; an exception ends the comprehension
RECURSIVE ZneTapes(_, _, _, _, _, _)
ZneTapes(t, mt, scales, i, acc, next) ==
    IF i > Len(scales)
    THEN [tapes |-> acc, next |-> next, raised |-> FALSE, calls |-> i - 1]
    ELSE IF Fails(mt, scales[i])
    THEN [tapes |-> acc, next |-> next, raised |-> TRUE, calls |-> i]
    ELSE LET q == TapeFn(mt, t, scales[i], next)
         IN  ZneTapes(t, mt, scales, i + 1, Append(acc, TapeOf(q)), q.next)

\* no combiner: the name processing_fn is not bound
NoFn == [fn |-> "none", bound |-> "none"]

\* partial(fit_zne, scale_factors) keeps a reference to the caller's list
Partial == [fn |-> "fit_zne", bound |-> "scale_factors"]

\* variant: each branch is built from the branch before it
RECURSIVE ZneTapes_Chained(_, _, _, _, _, _)
ZneTapes_Chained(t, mt, scales, i, acc, next) ==
    IF i > Len(scales)
    THEN [tapes |-> acc, next |-> next, raised |-> FALSE, calls |-> i - 1]
    ELSE LET q == TapeFn(mt, t, scales[i], next)
         IN  ZneTapes_Chained(TapeOf(q), mt, scales, i + 1,
                              Append(acc, TapeOf(q)), q.next)

zne_Chained(t, mt, scales, next) ==
    LET r == ZneTapes_Chained(t, mt, scales, 1, <<>>, next)
    IN  [tapes |-> r.tapes, processing_fn |-> Partial, next |-> r.next,
         raised |-> FALSE, calls |-> r.calls]

\* an exception raised by tape_fn leaves zne before anything is returned
zne(t, mt, scales, next) ==
    LET r == ZneTapes(t, mt, scales, 1, <<>>, next)
    IN  IF r.raised
        THEN [tapes |-> <<>>, processing_fn |-> NoFn, next |-> r.next,
              raised |-> TRUE, calls |-> r.calls]
        ELSE [tapes |-> r.tapes, processing_fn |-> Partial, next |-> r.next,
              raised |-> FALSE, calls |-> r.calls]

-----------------------------------------------------------------------------
(* Hamiltonians and qml.transforms.hamiltonian_expand *)

\* a tensor product of Pauli operators, one letter per wire ("I" where the
\* observable does not act): PauliZ(0) @ PauliZ(1) is <<"Z", "Z">>
Pauli(word) ==
    [otype |-> "Pauli", word |-> word, coeffs |-> <<>>, ops |-> <<>>]

\* qml.Hamiltonian(coeffs, observables)
Hamiltonian(coeffs, ops) ==
    [otype |-> "Hamiltonian", word |-> <<>>, coeffs |-> coeffs, ops |-> ops]

WordWires(word) ==
    LET Acts(w) == word[w + 1] # "I"
    IN  SelectSeq([i \in 1..Len(word) |-> i - 1], Acts)

ObsWires(obs) ==
    IF obs.otype = "Pauli" THEN WordWires(obs.word)
    ELSE IF Len(obs.ops) = 0 THEN <<>>
    ELSE [i \in 1..Len(obs.ops[1]) |-> i - 1]

\* qml.expval(obs): a new measurement process that holds the observable
Expval(id, obs) == [Meas(id, "expval", ObsWires(obs)) EXCEPT !.data = <<obs>>]

\* two Pauli words commute qubit-wise: on every wire they agree or one of
\* them is the identity
QWC(a, b) == \A w \in 1..Len(a) : a[w] = "I" \/ b[w] = "I" \/ a[w] = b[w]

\* the terms of S that do not commute qubit-wise with term i
Clash(ops, i, S) == {j \in S : j # i /\ ~QWC(ops[i], ops[j])}

\* recursive-largest-first colouring, one colour: the class grows by the
\* candidate with most clashes among the terms already excluded (the first
\* such candidate)
RECURSIVE GrowClass(_, _, _, _)
GrowClass(ops, class, excluded, candidates) ==
    IF candidates = {} THEN class
    ELSE LET Score(j) == Cardinality(Clash(ops, j, excluded))
             m == CHOOSE x \in candidates : \A j \in candidates :
                     Score(j) < Score(x) \/ (Score(j) = Score(x) /\ x <= j)
         IN  GrowClass(ops, Append(class, m),
                       excluded \cup Clash(ops, m, candidates),
                       candidates \ ({m} \cup Clash(ops, m, candidates)))

\* Hamiltonian.compute_grouping(): groups of qubit-wise commuting terms, as
\* sequences of term indices, in the order the colours are given out
RECURSIVE GroupingIndices(_, _)
GroupingIndices(ops, uncoloured) ==
    IF uncoloured = {} THEN <<>>
    ELSE LET Degree(j) == Cardinality(Clash(ops, j, uncoloured))
             m == CHOOSE x \in uncoloured : \A j \in uncoloured :
                     Degree(j) < Degree(x) \/ (Degree(j) = Degree(x) /\ x <= j)
             rest == uncoloured \ {m}
             class == GrowClass(ops, <<m>>, Clash(ops, m, rest),
                                rest \ Clash(ops, m, rest))
         IN  <<class>> \o GroupingIndices(ops,
                               uncoloured \ {class[i] : i \in 1..Len(class)})

\* group = False: every term is a group of its own
Singletons(ops) == [i \in 1..Len(ops) |-> <<i>>]

\* variant: the results are summed without their coefficients
expand_processing_fn_Unweighted(groupings, res) ==
    IF Len(res) = 0 \/ Len(groupings) = 0 THEN Raised
    ELSE Sum([i \in 1..Len(res) |-> Sum(res[i], 1)], 1)

\* variant: the terms are grouped although group = False
Groups_AlwaysGrouped(H, group) == GroupingIndices(H.ops, 1..Len(H.ops))

Groups(H, group) ==
    IF group THEN GroupingIndices(H.ops, 1..Len(H.ops)) ELSE Singletons(H.ops)

\* the tapes of hamiltonian_expand: one per group, built on the operations
\* of the input tape (tape._ops, the same objects) with a new expval
\* measurement for each term of the group
RECURSIVE ExpandTapes(_, _, _, _, _, _)
ExpandTapes(t, H, groups, i, acc, next) ==
    IF i > Len(groups) THEN [tapes |-> acc, next |-> next]
    ELSE LET g == groups[i]
             ms == [j \in 1..Len(g) |-> Expval(next + j - 1, Pauli(H.ops[g[j]]))]
         IN  ExpandTapes(t, H, groups, i + 1,
                         Append(acc, [operations |-> t.operations,
                                      measurements |-> ms]),
                         next + Len(g))

\* hamiltonian_expand(tape, group): the tapes and what the processing
\* function keeps: the coefficients of each group
hamiltonian_expand(t, group, next) ==
    LET H == t.measurements[1].data[1]
        groups == Groups(H, group)
        r == ExpandTapes(t, H, groups, 1, <<>>, next)
    IN  [tapes |-> r.tapes,
         coeff_groupings |-> [i \in 1..Len(groups) |->
                                 [j \in 1..Len(groups[i]) |->
                                     H.coeffs[groups[i][j]]]],
         next |-> r.next]

\* math.dot of two vectors of the same length
Dot(r, c) == Sum([j \in 1..Len(c) |-> Mul(r[j], c[j])], 1)

\* processing_fn(res_groupings): sum over the groups of dot(results, coeffs)
expand_processing_fn(groupings, res) ==
    IF Len(res) = 0 \/ Len(groupings) = 0 THEN Raised   \* math.stack([])
    ELSE LET n == IF Len(res) < Len(groupings) THEN Len(res)
                  ELSE Len(groupings)                   \* zip
         IN  Sum([i \in 1..n |-> Dot(res[i], groupings[i])], 1)

-----------------------------------------------------------------------------
(* Pipelines: qml.compile(pipeline=...) and stacked decorators *)

\* variant: every transform of the pipeline is given the recorded tape
RECURSIVE CompileLoop_EachOnInput(_, _, _, _)
CompileLoop_EachOnInput(t, pl, i, next) ==
    IF i > Len(pl) THEN [tape |-> t, next |-> next]
    ELSE LET q == TapeFn(pl[i].fn, t, pl[i].arg, next)
         IN  IF i = Len(pl) THEN [tape |-> TapeOf(q), next |-> q.next]
             ELSE CompileLoop_EachOnInput(t, pl, i + 1, q.next)

\* for transform in pipeline: tape = transform.tape_fn(tape)
RECURSIVE CompileLoop(_, _, _, _)
CompileLoop(t, pl, i, next) ==
    IF i > Len(pl) THEN [tape |-> t, next |-> next]
    ELSE LET q == TapeFn(pl[i].fn, t, pl[i].arg, next)
         IN  CompileLoop(TapeOf(q), pl, i + 1, q.next)

\* qml.compile(pipeline)(qfunc): the recorded tape goes through the pipeline
\* and the objects of the last tape are queued for the QNode
compile(t, pl, next) ==
    LET r == CompileLoop(t, pl, 1, next)
    IN  ApplyAll(Queue(<<>>, r.next), Circuit(r.tape))

\* decorators stacked on a quantum function, pl[1] the one next to it: the
\* wrapper of pl[n] records the function wrapped by pl[1..n-1] into a tape,
\* transforms that tape and queues the objects of the result
RECURSIVE Stacked(_, _, _, _)
Stacked(t, pl, n, next) ==
    IF n = 0 THEN Queue(Circuit(t), next)
    ELSE LET inner == Stacked(t, pl, n - 1, next)
             q == TapeFn(pl[n].fn, TapeOf(inner), pl[n].arg, inner.next)
         IN  ApplyAll(Queue(<<>>, q.next), Circuit(TapeOf(q)))

-----------------------------------------------------------------------------
(* Inputs *)

\* gate angles of the notebooks: 0.3, 0.1, -0.2
Angles == {Rat(3, 10), Rat(-1, 5)}

\* gates as written in a quantum function: [name, wires, data]
Gates ==
    {[name |-> "RX", wires |-> <<0>>, data |-> <<a>>] : a \in Angles}
    \cup {[name |-> "RY", wires |-> <<1>>, data |-> <<Rat(1, 10)>>],
          [name |-> "CNOT", wires |-> <<0, 1>>, data |-> <<>>],
          [name |-> "Hadamard", wires |-> <<0>>, data |-> <<>>]}

GateLists == UNION {[1..n -> Gates] : n \in 0..MaxOps}

\* measurement directives: [rtype, wires]
MeasLists ==
    {<<>>,
     <<[rtype |-> "expval", wires |-> <<0, 1>>]>>,
     <<[rtype |-> "expval", wires |-> <<0>>], [rtype |-> "probs", wires |-> <<1>>]>>}

\* recording a quantum function: every gate and measurement is a new object
Record(gs, ms) ==
    [operations |-> [i \in 1..Len(gs) |->
                        Op(i, gs[i].name, gs[i].wires, gs[i].data)],
     measurements |-> [j \in 1..Len(ms) |->
                        Meas(Len(gs) + j, ms[j].rtype, ms[j].wires)]]

\* transform arguments: scale factors (with ties and values below 1) and
\* overrotation angles
ScaleValues == {Rat(-3, 1), Rat(-1, 1), Rat(0, 1), Rat(1, 1), Rat(2, 1),
                Rat(5, 2), Rat(3, 1), Rat(4, 1), Rat(5, 1)}

Epsilons == {Rat(1, 10), Rat(1, 5)}

\* instructions of a Qiskit circuit (subroutine): rx(theta), h, ry(0.1)
DagGates ==
    {[name |-> "rx", wires |-> <<0>>, data |-> <<a>>] : a \in Angles}
    \cup {[name |-> "h", wires |-> <<0>>, data |-> <<>>],
          [name |-> "ry", wires |-> <<0>>, data |-> <<Rat(1, 10)>>]}

DagLists == UNION {[1..n -> DagGates] : n \in 1..(MaxOps + 1)}

\* circuit_to_dag: one op node per instruction
RecordDag(gs) == [i \in 1..Len(gs) |-> Op(i, gs[i].name, gs[i].wires, gs[i].data)]

\* the op nodes of a DAG seen as a sequence of operations
DagTape(nodes) == [operations |-> nodes, measurements |-> <<>>]

EmptyTape == [operations |-> <<>>, measurements |-> <<>>]

NoCall == [fn |-> "none", arg |-> NaN]

NoFit == [kind |-> "none", n |-> 0, d |-> 1]

-----------------------------------------------------------------------------
(* The transforms applied to a recorded tape *)

Cur == IF depth = 0 THEN tape ELSE out

ZIdle ==
    /\ scale_factors = <<>>
    /\ tapes = <<>>
    /\ branch_scales = <<>>
    /\ processing_fn = NoFn
    /\ results = <<>>
    /\ used_scales = <<>>
    /\ fitted = NoFit
    /\ attempted = <<>>
    /\ executed = <<>>
    /\ coeff_groupings = <<>>
    /\ zpc = "start"

\* a run starts from a recorded PennyLane tape or from a Qiskit DAG
Init ==
    /\ \/ \E gs \in GateLists, ms \in MeasLists :
             /\ tape = Record(gs, ms)
             /\ nextId = Len(gs) + Len(ms) + 1
             /\ dag = <<>>
       \/ \E gs \in DagLists :
             /\ tape = EmptyTape
             /\ nextId = Len(gs) + 1
             /\ dag = RecordDag(gs)
    /\ arg_after = EmptyTape
    /\ aliased = FALSE
    /\ queued = <<>>
    /\ pipeline = <<>>
    /\ inp = EmptyTape
    /\ out = EmptyTape
    /\ call = NoCall
    /\ depth = 0
    /\ ZIdle

\* a PennyLane transform returns: the tape it was given is not written to,
\* and the result is a tape built from the queue recorded during the call
Return(fn, arg, q) ==
    /\ dag = <<>>
    /\ inp' = Cur
    /\ arg_after' = Cur
    /\ aliased' = FALSE
    /\ queued' = q.items
    /\ UNCHANGED <<dag, pipeline>>
    /\ out' = TapeOf(q)
    /\ call' = [fn |-> fn, arg |-> arg]
    /\ nextId' = q.next
    /\ depth' = depth + 1
    /\ UNCHANGED tape
    /\ UNCHANGED zvars

CallUnitaryFolding ==
    /\ depth < MaxDepth
    /\ \E s \in ScaleValues :
          Return("unitary_folding", s, unitary_folding(Cur, s, nextId))

CallConvertCnots ==
    /\ depth < MaxDepth
    /\ Return("convert_cnots", NaN, convert_cnots(Cur, nextId))

CallQfuncConvertCnots ==
    /\ depth < MaxDepth
    /\ Return("qfunc_convert_cnots", NaN, qfunc_convert_cnots(Cur, nextId))

CallOverrotateRx ==
    /\ depth < MaxDepth
    /\ \E e \in Epsilons :
          Return("overrotate_rx", e, overrotate_rx(Cur, e, nextId))

CallSquareRootRx ==
    /\ depth < MaxDepth
    /\ Return("square_root_rx", NaN, square_root_rx(Cur, nextId))

\* PassManager(OverrotateRX(angle)).run(circuit): the pass is run on the DAG
CallOverrotateRXRun ==
    /\ depth < MaxDepth
    /\ dag # <<>>
    /\ \E angle \in Epsilons :
          /\ dag' = OverrotateRX_run(dag, angle)
          /\ call' = [fn |-> "OverrotateRX.run", arg |-> angle]
    /\ inp' = DagTape(dag)
    /\ out' = DagTape(dag')
    /\ arg_after' = DagTape(dag')
    /\ aliased' = TRUE
    /\ depth' = depth + 1
    /\ UNCHANGED <<tape, nextId, queued, pipeline>>
    /\ UNCHANGED zvars

Next ==
    \/ CallUnitaryFolding
    \/ CallConvertCnots
    \/ CallQfuncConvertCnots
    \/ CallOverrotateRx
    \/ CallSquareRootRx
    \/ CallOverrotateRXRun

Spec == Init /\ [][Next]_vars

-----------------------------------------------------------------------------
(* The zne batch transform called on a tape, and its combiner *)

Seqs(S, lo, hi) == UNION {[1..n -> S] : n \in lo..hi}

\* scale factors of the notebook (1.0, 3.0, 5.0, ...)
ZneScales == {Rat(1, 1), Rat(3, 1), Rat(5, 1)}

ZneGateLists ==
    {<<[name |-> "RX", wires |-> <<0>>, data |-> <<Rat(3, 10)>>],
       [name |-> "CNOT", wires |-> <<0, 1>>, data |-> <<>>]>>,
     <<[name |-> "RY", wires |-> <<1>>, data |-> <<Rat(1, 10)>>]>>}

ZneMeas == <<[rtype |-> "expval", wires |-> <<0, 1>>]>>

\* expectation values returned by the device
Energies == {Rat(1, 1), Rat(2, 1)}

MitigationTransforms == {"unitary_folding", "overrotate_rx"}

TIdle ==
    /\ dag = <<>>
    /\ arg_after = EmptyTape
    /\ aliased = FALSE
    /\ queued = <<>>
    /\ pipeline = <<>>
    /\ inp = EmptyTape
    /\ out = EmptyTape
    /\ call = NoCall
    /\ depth = 0

\* the first two terms of the Hamiltonian of the notebook:
\* 1.0 * Z(0) @ Z(1) + 2.0 * Z(1) @ Z(2)
ZneHamiltonian ==
    Hamiltonian(<<Rat(1, 1), Rat(2, 1)>>, <<<<"Z", "Z", "I">>, <<"I", "Z", "Z">>>>)

\* the circuit returns the expectation value of an observable or of a
\* Hamiltonian
InitZne ==
    /\ \E gs \in ZneGateLists :
          /\ \/ tape = Record(gs, ZneMeas)
             \/ tape = [Record(gs, <<>>) EXCEPT !.measurements =
                           <<Expval(Len(gs) + 1, ZneHamiltonian)>>]
          /\ nextId = Len(gs) + Len(ZneMeas) + 1
    /\ TIdle
    /\ ZIdle

\* scale factors passed to zne: those of the notebook, and nan
PassedScales == ZneScales \cup {NaN}

\* tapes, processing_fn = zne(...): the names are bound when zne returns and
\* stay unbound when it raises
CallZne ==
    /\ zpc = "start"
    /\ \E mt \in MitigationTransforms, sf \in Seqs(PassedScales, 0, MaxScales) :
          LET r == zne(tape, mt, sf, nextId)
          IN  /\ scale_factors' = sf
              /\ attempted' = SubSeq(sf, 1, r.calls)
              /\ nextId' = r.next
              /\ call' = [fn |-> mt, arg |-> NaN]
              /\ IF r.raised
                 THEN /\ zpc' = "raised"
                      /\ UNCHANGED <<tapes, branch_scales, processing_fn>>
                 ELSE /\ zpc' = "forked"
                      /\ tapes' = r.tapes
                      /\ branch_scales' = sf
                      /\ processing_fn' = r.processing_fn
    /\ UNCHANGED <<tape, inp, out, depth, dag, arg_after, aliased, queued,
                   pipeline>>
    /\ UNCHANGED <<results, used_scales, fitted, executed, coeff_groupings>>

\* the caller assigns to an item of the list it passed to zne
CallerMutates ==
    /\ zpc = "forked"
    /\ scale_factors = branch_scales
    /\ \E i \in 1..Len(scale_factors), v \in ZneScales :
          /\ v # scale_factors[i]
          /\ scale_factors' = [scale_factors EXCEPT ![i] = v]
    /\ UNCHANGED <<tvars, tapes, branch_scales, processing_fn, results,
                   used_scales, fitted, attempted, executed,
                   coeff_groupings, zpc>>

\* op.data[0] = v on the object with identity id: every sequence that holds
\* the object sees the new parameter
WriteData(s, id, v) ==
    [n \in 1..Len(s) |->
        IF s[n].id = id THEN [s[n] EXCEPT !.data = <<v>>] ELSE s[n]]

WriteTape(t, id, v) ==
    [operations |-> WriteData(t.operations, id, v),
     measurements |-> t.measurements]

\* the caller assigns a parameter of an operation of one branch tape, before
\* the branches are executed
BranchMutates ==
    /\ zpc = "forked"
    /\ results = <<>>
    /\ scale_factors = branch_scales
    /\ \E b \in 1..Len(tapes) :
          \E n \in 1..Len(tapes[b].operations), v \in Angles :
             LET op == tapes[b].operations[n]
             IN  /\ op.data # <<>>
                 /\ op.data # <<v>>
                 /\ tape' = WriteTape(tape, op.id, v)
                 /\ tapes' = [c \in 1..Len(tapes) |->
                                 WriteTape(tapes[c], op.id, v)]
    /\ zpc' = "modified"
    /\ UNCHANGED <<inp, out, call, nextId, depth, dag, arg_after, aliased,
                   queued, pipeline>>
    /\ UNCHANGED <<scale_factors, branch_scales, processing_fn, results,
                   used_scales, fitted, attempted, executed, coeff_groupings>>

\* processing_fn(results): fit_zne(<the bound list>, results)
CallProcessingFn ==
    /\ zpc = "forked"
    /\ processing_fn = Partial
    /\ \E res \in Seqs(Energies, 0, MaxScales) :
          /\ results' = res
          /\ used_scales' = scale_factors
          /\ fitted' = fit_zne(scale_factors, res)
    /\ zpc' = "combined"
    /\ UNCHANGED <<tvars, scale_factors, tapes, branch_scales, processing_fn,
                   attempted, executed, coeff_groupings>>

\* the QNode decorated with zne(unitary_folding, scale_factors) is called:
\* the batch transform is applied to the tape of the QNode
CallQNode ==
    /\ zpc = "start"
    /\ \E sf \in Seqs(PassedScales, 0, MaxScales) :
          LET r == zne(tape, "unitary_folding", sf, nextId)
          IN  /\ scale_factors' = sf
              /\ attempted' = SubSeq(sf, 1, r.calls)
              /\ nextId' = r.next
              /\ IF r.raised
                 THEN /\ zpc' = "raised"
                      /\ UNCHANGED <<tapes, branch_scales, processing_fn>>
                 ELSE /\ zpc' = "executing"
                      /\ tapes' = r.tapes
                      /\ branch_scales' = sf
                      /\ processing_fn' = r.processing_fn
    /\ call' = [fn |-> "unitary_folding", arg |-> NaN]
    /\ UNCHANGED <<tape, inp, out, depth, dag, arg_after, aliased, queued,
                   pipeline>>
    /\ UNCHANGED <<results, used_scales, fitted, executed, coeff_groupings>>

MeasuresHamiltonian(t) ==
    /\ Len(t.measurements) > 0
    /\ Len(t.measurements[1].data) > 0
    /\ t.measurements[1].data[1].otype = "Hamiltonian"

\* device.batch_transform(tape): a tape that measures a Hamiltonian is split
\* with hamiltonian_expand(tape, group=False), any other tape is kept
DeviceBatch(t, next) ==
    IF MeasuresHamiltonian(t) THEN hamiltonian_expand(t, FALSE, next)
    ELSE [tapes |-> <<t>>, coeff_groupings |-> <<>>, next |-> next]

\* qml.execute for the next branch tape: its device tapes are run, one
\* result each, and put together by the processing function of the device
ExecuteBranch ==
    /\ zpc = "executing"
    /\ Len(results) < Len(tapes)
    /\ LET i == Len(results) + 1
           e == DeviceBatch(tapes[i], nextId)
       IN  /\ \E vals \in [1..Len(e.tapes) -> Energies] :
                 /\ executed' = Append(executed, [branch |-> i,
                                                  tapes |-> e.tapes,
                                                  values |-> vals])
                 /\ results' = Append(results,
                        IF MeasuresHamiltonian(tapes[i])
                        THEN expand_processing_fn(e.coeff_groupings,
                                 [j \in 1..Len(vals) |-> <<vals[j]>>])
                        ELSE vals[1])
           /\ nextId' = e.next
    /\ UNCHANGED <<tape, inp, out, call, depth, dag, arg_after, aliased,
                   queued, pipeline>>
    /\ UNCHANGED <<scale_factors, tapes, branch_scales, processing_fn,
                   used_scales, fitted, attempted, coeff_groupings, zpc>>

\* all branches are executed: the QNode returns processing_fn(results)
QNodeReturn ==
    /\ zpc = "executing"
    /\ Len(results) = Len(tapes)
    /\ used_scales' = scale_factors
    /\ fitted' = fit_zne(scale_factors, results)
    /\ zpc' = "returned"
    /\ UNCHANGED <<tvars, scale_factors, tapes, branch_scales, processing_fn,
                   results, attempted, executed, coeff_groupings>>

NextZne ==
    \/ CallZne
    \/ CallerMutates
    \/ BranchMutates
    \/ CallProcessingFn
    \/ CallQNode
    \/ ExecuteBranch
    \/ QNodeReturn

SpecZne == InitZne /\ [][NextZne]_vars

-----------------------------------------------------------------------------
(* Pipelines of transforms applied to a quantum function *)

\* circuits of the notebooks: CNOT, RX(param), CNOT on three wires, and the
\* subroutine RX(theta), Hadamard, RY(0.1)
PipelineGateLists ==
    {<<[name |-> "CNOT", wires |-> <<0, 1>>, data |-> <<>>],
       [name |-> "RX", wires |-> <<0>>, data |-> <<Rat(3, 10)>>],
       [name |-> "CNOT", wires |-> <<1, 2>>, data |-> <<>>]>>,
     <<[name |-> "RX", wires |-> <<0>>, data |-> <<Rat(-1, 5)>>],
       [name |-> "Hadamard", wires |-> <<0>>, data |-> <<>>],
       [name |-> "RY", wires |-> <<0>>, data |-> <<Rat(1, 10)>>]>>,
     <<[name |-> "RY", wires |-> <<1>>, data |-> <<Rat(1, 10)>>]>>,
     <<>>}

\* the non-batch transforms of the repository with their arguments
PipelineSteps ==
    {[fn |-> "convert_cnots", arg |-> NaN],
     [fn |-> "square_root_rx", arg |-> NaN],
     [fn |-> "unitary_folding", arg |-> Rat(1, 1)],
     [fn |-> "unitary_folding", arg |-> Rat(3, 1)]}
    \cup {[fn |-> "overrotate_rx", arg |-> e] : e \in Epsilons}

Pipelines == Seqs(PipelineSteps, 0, MaxPipeline)

InitPipeline ==
    /\ \E gs \in PipelineGateLists, ms \in MeasLists :
          /\ tape = Record(gs, ms)
          /\ nextId = Len(gs) + Len(ms) + 1
    /\ TIdle
    /\ ZIdle

\* the QNode records the function wrapped by the pipeline
Recorded(fn, pl, q) ==
    /\ inp' = tape
    /\ out' = TapeOf(q)
    /\ queued' = q.items
    /\ call' = [fn |-> fn, arg |-> NaN]
    /\ pipeline' = pl
    /\ nextId' = q.next
    /\ depth' = Len(pl)
    /\ arg_after' = tape
    /\ aliased' = FALSE
    /\ UNCHANGED <<tape, dag>>
    /\ UNCHANGED zvars

CallCompile ==
    /\ call = NoCall
    /\ \E pl \in Pipelines : Recorded("compile", pl, compile(tape, pl, nextId))

CallStacked ==
    /\ call = NoCall
    /\ \E pl \in Pipelines :
          Recorded("stacked", pl, Stacked(tape, pl, Len(pl), nextId))

NextPipeline ==
    \/ CallCompile
    \/ CallStacked

SpecPipeline == InitPipeline /\ [][NextPipeline]_vars

-----------------------------------------------------------------------------
(* fit_zne called directly *)

FitScales == {Rat(1, 1), Rat(2, 1), Rat(5, 2), Rat(3, 1)}

FitEnergies == {Rat(-1, 1), Rat(0, 1), Rat(7, 2)}

Slopes == {Rat(2, 1), Rat(-1, 2), Rat(0, 1)}

Intercepts == {Rat(5, 1), Rat(-3, 4)}

\* the scale factors the notebook passes to zne
NotebookScales == <<Rat(1, 1), Rat(3, 1), Rat(5, 1), Rat(7, 1), Rat(9, 1)>>

Linear(m, b, scales) == [i \in 1..Len(scales) |-> Add(Mul(m, scales[i]), b)]

InitFit ==
    /\ tape = EmptyTape
    /\ nextId = 1
    /\ TIdle
    /\ ZIdle

FitCall(sf, en) ==
    /\ scale_factors' = sf
    /\ results' = en
    /\ used_scales' = sf
    /\ fitted' = fit_zne(sf, en)
    /\ zpc' = "combined"
    /\ UNCHANGED <<tvars, tapes, branch_scales, processing_fn, attempted,
                   executed, coeff_groupings>>

CallFitZne ==
    /\ zpc = "start"
    /\ \E sf \in Seqs(FitScales, 0, MaxScales),
          en \in Seqs(FitEnergies, 0, MaxScales) :
          FitCall(sf, en)

\* energies that lie exactly on a line
CallFitZneLinear ==
    /\ zpc = "start"
    /\ \E sf \in Seqs(FitScales, 1, MaxScales) \cup {NotebookScales},
          m \in Slopes, b \in Intercepts :
          FitCall(sf, Linear(m, b, sf))

NextFit ==
    \/ CallFitZne
    \/ CallFitZneLinear

SpecFit == InitFit /\ [][NextFit]_vars

-----------------------------------------------------------------------------
(* qml.transforms.merge_rotations under qml.gradients.param_shift *)

\* the rotations that merge_rotations composes, among the gates of the model
ComposableRotations == {"RX", "RY"}

SharesWire(v, w) == \E i \in 1..Len(v), j \in 1..Len(w) : v[i] = w[j]

\* find_next_gate(wires, op_list): the index of the first operation that acts
\* on one of the wires, 0 when there is none
FindNextGate(wires, op_list) ==
    IF \E i \in 1..Len(op_list) : SharesWire(wires, op_list[i].wires)
    THEN CHOOSE i \in 1..Len(op_list) :
            /\ SharesWire(wires, op_list[i].wires)
            /\ \A j \in 1..(i - 1) : ~SharesWire(wires, op_list[j].wires)
    ELSE 0

\* list.pop(i)
Pop(s, i) == SubSeq(s, 1, i - 1) \o SubSeq(s, i + 1, Len(s))

\* allclose(angle, 0, atol=1e-8, rtol=0): |n| / d <= 1e-8, as d / |n| >= 1e8
CloseToZero(a) ==
    IsNum(a) /\ (a.n = 0 \/ a.d \div Abs(a.n) >= 100000000)

\* variant: the next gate is never merged into the current one
MergeNext_Never(cur, angle, list_copy) ==
    [angle |-> angle, list_copy |-> list_copy]

\* the inner loop: while the next gate on the wires of the current gate has
\* its name and its wires, it is removed and its angle added
RECURSIVE MergeNext(_, _, _)
MergeNext(cur, angle, list_copy) ==
    LET idx == FindNextGate(cur.wires, Tail(list_copy))
    IN  IF idx = 0 THEN [angle |-> angle, list_copy |-> list_copy]
        ELSE LET next_gate == list_copy[idx + 1]
             IN  IF cur.name = next_gate.name /\ cur.wires = next_gate.wires
                 THEN MergeNext(cur, Add(angle, next_gate.data[1]),
                                Pop(list_copy, idx + 1))
                 ELSE [angle |-> angle, list_copy |-> list_copy]

\* the outer loop over the working copy of the operations: a gate that is no
\* rotation, or has no later gate on its wires, is applied as it is; any
\* other rotation is rebuilt with the cumulative angle, unless that is zero
RECURSIVE MergeLoop(_, _)
MergeLoop(q, list_copy) ==
    IF q.next > 0 /\ list_copy = <<>> THEN q
    ELSE LET cur == Head(list_copy)
         IN  IF cur.name \notin ComposableRotations
                    \/ FindNextGate(cur.wires, Tail(list_copy)) = 0
             THEN MergeLoop(Apply(q, cur), Tail(list_copy))
             ELSE LET m == MergeNext(cur, cur.data[1], list_copy)
                  IN  MergeLoop(IF CloseToZero(m.angle) THEN q
                                ELSE New(q, cur.name, cur.wires, <<m.angle>>),
                                Tail(m.list_copy))

merge_rotations(t, next) ==
    ApplyAll(MergeLoop(Queue(<<>>, next), t.operations), t.measurements)

\* the number of gate parameters of a tape; every gate argument of the
\* circuits differentiated is an argument of the QNode and is trainable
RECURSIVE CountParams(_, _)
CountParams(ops, i) ==
    IF i > Len(ops) THEN 0 ELSE Len(ops[i].data) + CountParams(ops, i + 1)

NumParams(t) == CountParams(t.operations, 1)

\* the tape with its trainable parameter i shifted by mult * pi/2
Shifted(t, i, mult) == [tape |-> t, idx |-> i, mult |-> mult]

\* param_shift(tape): two shifted tapes (+pi/2, -pi/2) for every trainable
\* parameter, in the order of the parameters; none for a tape without one
param_shift(t) ==
    [k \in 1..(2 * NumParams(t)) |->
        Shifted(t, (k + 1) \div 2, IF k % 2 = 1 THEN 1 ELSE -1)]

\* circuits of the notebook (RX(params[0]), RX(params[1]) on wire 0) and
\* others: opposite angles, another wire, a gate in between
GradGates ==
    {[name |-> "RX", wires |-> <<0>>, data |-> <<Rat(3, 10)>>],
     [name |-> "RX", wires |-> <<0>>, data |-> <<Rat(2, 5)>>],
     [name |-> "RX", wires |-> <<0>>, data |-> <<Rat(-3, 10)>>],
     [name |-> "RX", wires |-> <<1>>, data |-> <<Rat(3, 10)>>],
     [name |-> "Hadamard", wires |-> <<0>>, data |-> <<>>]}

GradGateLists == Seqs(GradGates, 0, MaxOps)

\* return qml.expval(qml.PauliZ(0))
GradMeas == <<[rtype |-> "expval", wires |-> <<0>>]>>

InitGrad ==
    /\ \E gs \in GradGateLists :
          /\ tape = Record(gs, GradMeas)
          /\ nextId = Len(gs) + Len(GradMeas) + 1
    /\ TIdle
    /\ ZIdle

\* @qml.transforms.merge_rotations() on the quantum function
CallMergeRotations ==
    /\ zpc = "start"
    /\ pipeline = <<>>
    /\ LET q == merge_rotations(tape, nextId)
       IN  /\ out' = TapeOf(q)
           /\ queued' = q.items
           /\ nextId' = q.next
    /\ inp' = tape
    /\ pipeline' = <<"merge_rotations">>
    /\ UNCHANGED <<tape, call, depth, dag, arg_after, aliased, zvars>>

\* @qml.gradients.param_shift on the QNode: the shifted tapes of the tape of
\* the QNode, which is the merged one under merge_rotations
CallParamShift ==
    /\ zpc = "start"
    /\ tapes' = param_shift(IF pipeline = <<>> THEN tape ELSE out)
    /\ pipeline' = Append(pipeline, "param_shift")
    /\ zpc' = "executing"
    /\ UNCHANGED <<tape, inp, out, call, nextId, depth, dag, arg_after,
                   aliased, queued>>
    /\ UNCHANGED <<scale_factors, branch_scales, processing_fn, results,
                   used_scales, fitted, attempted, executed, coeff_groupings>>

\* the device runs the next shifted tape
ExecuteShifted ==
    /\ zpc = "executing"
    /\ Len(executed) < Len(tapes)
    /\ executed' = Append(executed, tapes[Len(executed) + 1])
    /\ UNCHANGED <<tvars, scale_factors, tapes, branch_scales, processing_fn,
                   results, used_scales, fitted, attempted, coeff_groupings,
                   zpc>>

\* the gradient is returned once every shifted tape has been run
GradReturn ==
    /\ zpc = "executing"
    /\ Len(executed) = Len(tapes)
    /\ zpc' = "returned"
    /\ UNCHANGED <<tvars, scale_factors, tapes, branch_scales, processing_fn,
                   results, used_scales, fitted, attempted, executed,
                   coeff_groupings>>

NextGrad ==
    \/ CallMergeRotations
    \/ CallParamShift
    \/ ExecuteShifted
    \/ GradReturn

SpecGrad == InitGrad /\ [][NextGrad]_vars

-----------------------------------------------------------------------------
(* hamiltonian_expand called on a tape, and its processing function *)

\* Pauli words on two wires: the terms of the notebook (Z@Z, Y@Y, X@X) and
\* single-wire terms
ExpandWords ==
    {<<"Z", "Z">>, <<"Y", "Y">>, <<"X", "X">>, <<"Z", "I">>, <<"I", "Z">>}

\* the term lists of a Hamiltonian: no term twice
TermLists ==
    {ops \in Seqs(ExpandWords, 1, MaxTerms) :
        \A i, j \in 1..Len(ops) : i # j => ops[i] # ops[j]}

\* coefficients: all 1 as in the notebook, or 1, 2, 3, ...
CoeffLists(k) == {[i \in 1..k |-> Rat(1, 1)], [i \in 1..k |-> Rat(i, 1)]}

\* the tape of the notebook: RY(0.3), RY(0.4), CNOT(0, 1), CNOT(1, 0); and a
\* tape of one gate
ExpandGateLists ==
    {<<[name |-> "RY", wires |-> <<0>>, data |-> <<Rat(3, 10)>>],
       [name |-> "RY", wires |-> <<1>>, data |-> <<Rat(2, 5)>>],
       [name |-> "CNOT", wires |-> <<0, 1>>, data |-> <<>>],
       [name |-> "CNOT", wires |-> <<1, 0>>, data |-> <<>>]>>,
     <<[name |-> "RY", wires |-> <<0>>, data |-> <<Rat(3, 10)>>]>>}

InitExpand ==
    /\ \E gs \in ExpandGateLists, ops \in TermLists :
          \E coeffs \in CoeffLists(Len(ops)) :
             /\ tape = [Record(gs, <<>>) EXCEPT !.measurements =
                           <<Expval(Len(gs) + 1, Hamiltonian(coeffs, ops))>>]
             /\ nextId = Len(gs) + 2
    /\ TIdle
    /\ ZIdle

\* the processing function returned by hamiltonian_expand
ExpandFn == [fn |-> "processing_fn", bound |-> "coeff_groupings"]

\* tapes, fn = qml.transforms.hamiltonian_expand(tape), with the default
\* group=True or with group=False; call.arg keeps group as a number
CallHamiltonianExpand ==
    /\ zpc = "start"
    /\ \E group \in BOOLEAN :
          LET r == hamiltonian_expand(tape, group, nextId)
          IN  /\ tapes' = r.tapes
              /\ coeff_groupings' = r.coeff_groupings
              /\ nextId' = r.next
              /\ call' = [fn |-> "hamiltonian_expand",
                          arg |-> IF group THEN Rat(1, 1) ELSE Rat(0, 1)]
    /\ processing_fn' = ExpandFn
    /\ zpc' = "forked"
    /\ UNCHANGED <<tape, inp, out, depth, dag, arg_after, aliased, queued,
                   pipeline>>
    /\ UNCHANGED <<scale_factors, branch_scales, results, used_scales, fitted,
                   attempted, executed>>

\* results = qml.execute(tapes, dev): one value for each measurement of the
\* next tape
ExecuteExpanded ==
    /\ zpc = "forked"
    /\ processing_fn = ExpandFn
    /\ Len(results) < Len(tapes)
    /\ LET t == tapes[Len(results) + 1]
       IN  /\ \E vals \in [1..Len(t.measurements) -> Energies] :
                 results' = Append(results, vals)
           /\ executed' = Append(executed, t)
    /\ UNCHANGED <<tvars, scale_factors, tapes, branch_scales, processing_fn,
                   used_scales, fitted, attempted, coeff_groupings, zpc>>

\* fn(results)
CallExpandFn ==
    /\ zpc = "forked"
    /\ processing_fn = ExpandFn
    /\ Len(results) = Len(tapes)
    /\ fitted' = expand_processing_fn(coeff_groupings, results)
    /\ zpc' = "returned"
    /\ UNCHANGED <<tvars, scale_factors, tapes, branch_scales, processing_fn,
                   results, used_scales, attempted, executed, coeff_groupings>>

NextExpand ==
    \/ CallHamiltonianExpand
    \/ ExecuteExpanded
    \/ CallExpandFn

SpecExpand == InitExpand /\ [][NextExpand]_vars

-----------------------------------------------------------------------------
(* qml.transforms.insert(qml.AmplitudeDamping, 0.05, position="all")(dev) *)

\* state preparations are applied first and get no inserted operation
StatePreps == {"BasisState", "QubitStateVector"}

IsStatePrep(x) == x.name \in StatePreps

\* num_preps: the number of state preparations among the operations
NumPreps(ops) == Len(SelectSeq(ops, IsStatePrep))

\* for w in circ_op.wires: op(*op_args, wires=w)
RECURSIVE InsertOnWires(_, _, _, _, _)
InsertOnWires(q, op, op_args, wires, j) ==
    IF q.next > 0 /\ j > Len(wires) THEN q
    ELSE InsertOnWires(New(q, op, <<wires[j]>>, op_args), op, op_args, wires,
                       j + 1)

\* variant: the operation is inserted before the gate (before = True)
InsertAfter_Before(q, circ_op, op, op_args) ==
    Apply(InsertOnWires(q, op, op_args, circ_op.wires, 1), circ_op)

\* position = "all", before = False: the gate, then the inserted operation
\* on each of its wires
InsertAfter(q, circ_op, op, op_args) ==
    InsertOnWires(Apply(q, circ_op), op, op_args, circ_op.wires, 1)

\* for circ_op in circuit.operations[num_preps:]
RECURSIVE InsertLoop(_, _, _, _, _)
InsertLoop(q, ops, i, op, op_args) ==
    IF q.next > 0 /\ i > Len(ops) THEN q
    ELSE InsertLoop(InsertAfter(q, ops[i], op, op_args), ops, i + 1, op,
                    op_args)

\* insert(circuit, op, op_args, position="all"): the first num_preps
\* operations are applied as they are, the others with the inserted
\* operation after them, then the measurements
insert(t, op, op_args, next) ==
    LET n == NumPreps(t.operations)
        preps == ApplyAll(Queue(<<>>, next), SubSeq(t.operations, 1, n))
    IN  ApplyAll(InsertLoop(preps, t.operations, n + 1, op, op_args),
                 t.measurements)

\* gates of the notebook's circuit (RX(-2x) for x = 0.3, S) and others: a
\* two-wire gate, a gate on another wire, a state preparation
InsertGates ==
    {[name |-> "RX", wires |-> <<0>>, data |-> <<Rat(-3, 5)>>],
     [name |-> "S", wires |-> <<0>>, data |-> <<>>],
     [name |-> "Hadamard", wires |-> <<1>>, data |-> <<>>],
     [name |-> "CNOT", wires |-> <<0, 1>>, data |-> <<>>],
     [name |-> "BasisState", wires |-> <<0>>, data |-> <<Rat(1, 1)>>]}

InsertGateLists == Seqs(InsertGates, 0, MaxOps)

\* the damping probability of the notebook, and another
Gammas == {Rat(1, 20), Rat(1, 10)}

InitInsert ==
    /\ \E gs \in InsertGateLists, ms \in MeasLists :
          /\ tape = Record(gs, ms)
          /\ nextId = Len(gs) + Len(ms) + 1
    /\ TIdle
    /\ ZIdle

\* noisy_qnode(x): the device transform is applied to the tape of the QNode
\* before it is executed
CallNoisyQNode ==
    /\ call = NoCall
    /\ \E gamma \in Gammas :
          LET q == insert(tape, "AmplitudeDamping", <<gamma>>, nextId)
          IN  /\ out' = TapeOf(q)
              /\ queued' = q.items
              /\ nextId' = q.next
              /\ call' = [fn |-> "insert", arg |-> gamma]
    /\ inp' = tape
    /\ UNCHANGED <<tape, depth, dag, arg_after, aliased, pipeline, zvars>>

\* the device runs the tape with the inserted operations
ExecuteNoisy ==
    /\ call.fn = "insert"
    /\ executed = <<>>
    /\ executed' = <<out>>
    /\ UNCHANGED <<tvars, scale_factors, tapes, branch_scales, processing_fn,
                   results, used_scales, fitted, attempted, coeff_groupings,
                   zpc>>

NextInsert ==
    \/ CallNoisyQNode
    \/ ExecuteNoisy

SpecInsert == InitInsert /\ [][NextInsert]_vars

-----------------------------------------------------------------------------
(* OverrotateRX (Qiskit) and overrotate_rx (PennyLane) on the same circuit *)

\* the Qiskit name of a gate of the model
QiskitName(name) ==
    IF name = "RX" THEN "rx"
    ELSE IF name = "RY" THEN "ry"
    ELSE IF name = "Hadamard" THEN "h"
    ELSE "cx"

ToQiskit(gs) == [i \in 1..Len(gs) |-> [gs[i] EXCEPT !.name = QiskitName(gs[i].name)]]

\* gates of the subroutine (RX(theta), Hadamard, RY(0.1)) and a two-wire gate
BothGates ==
    {[name |-> "RX", wires |-> <<0>>, data |-> <<a>>] : a \in Angles}
    \cup {[name |-> "Hadamard", wires |-> <<0>>, data |-> <<>>],
          [name |-> "RY", wires |-> <<0>>, data |-> <<Rat(1, 10)>>],
          [name |-> "CNOT", wires |-> <<0, 1>>, data |-> <<>>]}

BothGateLists == Seqs(BothGates, 0, MaxOps)

\* the same circuit written in both frameworks
InitBoth ==
    /\ \E gs \in BothGateLists :
          /\ tape = Record(gs, <<>>)
          /\ dag = RecordDag(ToQiskit(gs))
          /\ nextId = Len(gs) + 1
    /\ arg_after = EmptyTape
    /\ aliased = FALSE
    /\ queued = <<>>
    /\ pipeline = <<>>
    /\ inp = EmptyTape
    /\ out = EmptyTape
    /\ call = NoCall
    /\ depth = 0
    /\ ZIdle

\* the angle of the first of the two calls is the angle of the other
SameAngle(angle) == call = NoCall \/ call.arg = angle

\* PassManager(OverrotateRX(angle)).run(circuit)
RunPass ==
    /\ \A i \in 1..Len(pipeline) : pipeline[i] # "OverrotateRX.run"
    /\ \E angle \in Epsilons :
          /\ SameAngle(angle)
          /\ dag' = OverrotateRX_run(dag, angle)
          /\ call' = [fn |-> "overrotate", arg |-> angle]
    /\ arg_after' = DagTape(dag')
    /\ pipeline' = Append(pipeline, "OverrotateRX.run")
    /\ UNCHANGED <<tape, inp, out, nextId, depth, aliased, queued, zvars>>

\* overrotate_rx(epsilon)(circuit)
RunTransform ==
    /\ \A i \in 1..Len(pipeline) : pipeline[i] # "overrotate_rx"
    /\ \E epsilon \in Epsilons :
          /\ SameAngle(epsilon)
          /\ LET q == overrotate_rx(tape, epsilon, nextId)
             IN  /\ out' = TapeOf(q)
                 /\ queued' = q.items
                 /\ nextId' = q.next
          /\ call' = [fn |-> "overrotate", arg |-> epsilon]
    /\ inp' = tape
    /\ pipeline' = Append(pipeline, "overrotate_rx")
    /\ UNCHANGED <<tape, depth, dag, arg_after, aliased, zvars>>

\* subroutine(theta) in Qiskit: circ.rx(theta), circ.h(), circ.ry(0.1)
QiskitSubroutine(theta, first) ==
    <<Op(first, "rx", <<0>>, <<theta>>),
      Op(first + 1, "h", <<0>>, <<>>),
      Op(first + 2, "ry", <<0>>, <<Rat(1, 10)>>)>>

\* circ = PassManager(OverrotateRX(t0)).run(subroutine(p0));
\* circ.compose(PassManager(OverrotateRX(t1)).run(subroutine(p1)))
QiskitCircuit(p, t) ==
    OverrotateRX_run(QiskitSubroutine(p[1], 1), t[1])
        \o OverrotateRX_run(QiskitSubroutine(p[2], 4), t[2])

\* subroutine(theta) in PennyLane: RX(theta), Hadamard, RY(0.1)
Subroutine(q, theta) ==
    New(New(New(q, "RX", <<0>>, <<theta>>), "Hadamard", <<0>>, <<>>),
        "RY", <<0>>, <<Rat(1, 10)>>)

\* overrotate_rx(epsilon)(subroutine)(theta): the subroutine is recorded on
\* a tape of its own, the tape is transformed, and the operations of the
\* transformed tape are queued where the call was made
Overrotated(q, theta, epsilon) ==
    LET sub == Subroutine(Queue(<<>>, q.next), theta)
        r == overrotate_rx(TapeOf(sub), epsilon, sub.next)
    IN  Queue(q.items \o r.items, r.next)

\* the quantum function of evaluate_grad_with_pl
PlCircuit(p, t, next) ==
    LET q == Overrotated(Overrotated(Queue(<<>>, next), p[1], t[1]), p[2], t[2])
    IN  Queue(Append(q.items, Meas(q.next, "expval", <<0>>)), q.next + 1)

\* params and t_params of the first of the two evaluations are those of the
\* other
SameParams(p, t) == scale_factors = <<>> \/ scale_factors = p \o t

\* evaluate_grad_with_qiskit(params, t_params): the circuit it differentiates
CallEvaluateGradQiskit ==
    /\ executed = <<>>
    /\ \E p \in [1..2 -> Angles], t \in [1..2 -> Epsilons] :
          /\ SameParams(p, t)
          /\ scale_factors' = p \o t
          /\ executed' = <<DagTape(QiskitCircuit(p, t))>>
    /\ UNCHANGED <<tvars, tapes, branch_scales, processing_fn, results,
                   used_scales, fitted, attempted, coeff_groupings, zpc>>

\* evaluate_grad_with_pl(params, t_params): the tape of the QNode
CallEvaluateGradPl ==
    /\ tapes = <<>>
    /\ \E p \in [1..2 -> Angles], t \in [1..2 -> Epsilons] :
          /\ SameParams(p, t)
          /\ scale_factors' = p \o t
          /\ LET q == PlCircuit(p, t, nextId)
             IN  /\ tapes' = <<TapeOf(q)>>
                 /\ nextId' = q.next
    /\ UNCHANGED <<tape, inp, out, call, depth, dag, arg_after, aliased,
                   queued, pipeline>>
    /\ UNCHANGED <<branch_scales, processing_fn, results, used_scales,
                   fitted, attempted, executed, coeff_groupings, zpc>>

NextBoth ==
    \/ RunPass
    \/ RunTransform
    \/ CallEvaluateGradQiskit
    \/ CallEvaluateGradPl

SpecBoth == InitBoth /\ [][NextBoth]_vars

-----------------------------------------------------------------------------
(* qml.transforms.single_qubit_fusion and jax.grad of a parameter-shift QNode *)

NumWires == 5

\* the single-qubit gates that have Rot angles, among the gates of the model
HasRotAngles(x) == x.name \in {"RX", "RY", "Rot", "Hadamard"}

\* an angle of the Rot that is the product of several gates: component c of
\* the product of k gates (the product involves pi and is not a rational)
FusedAngle(c, k) == [kind |-> "fused", n |-> c, d |-> k]

\* the angles of the Rot that replaces the gates: those of a lone Rot, or
\* the three angles of the product
FusedAngles(fused) ==
    IF Len(fused) = 1 /\ fused[1].name = "Rot" THEN fused[1].data
    ELSE [c \in 1..3 |-> FusedAngle(c, Len(fused))]

\* the product of the gates is the identity (all Rot angles close to zero).
\* With rational angles a product that holds one Hadamard and rotations is
\* no identity; a product of rotations is one when all angles are zero
FusedToIdentity(fused) ==
    \A i \in 1..Len(fused) :
        /\ fused[i].name # "Hadamard"
        /\ \A j \in 1..Len(fused[i].data) : CloseToZero(fused[i].data[j])

\* variant: the next gate is never fused into the current one
FuseNext_Never(cur, fused, list_copy) ==
    [fused |-> fused, list_copy |-> list_copy]

\* the inner loop: while the next gate on the wire of the current gate has
\* Rot angles, it is removed and its angles are fused
RECURSIVE FuseNext(_, _, _)
FuseNext(cur, fused, list_copy) ==
    LET idx == FindNextGate(cur.wires, Tail(list_copy))
    IN  IF idx = 0 THEN [fused |-> fused, list_copy |-> list_copy]
        ELSE LET next_gate == list_copy[idx + 1]
             IN  IF HasRotAngles(next_gate)
                 THEN FuseNext(cur, Append(fused, next_gate),
                               Pop(list_copy, idx + 1))
                 ELSE [fused |-> fused, list_copy |-> list_copy]

\* the outer loop: a gate without Rot angles, or without a later gate on its
\* wires, is applied as it is; any other gate is replaced by the Rot of the
\* fused angles, unless that is the identity
RECURSIVE FuseLoop(_, _)
FuseLoop(q, list_copy) ==
    IF q.next > 0 /\ list_copy = <<>> THEN q
    ELSE LET cur == Head(list_copy)
         IN  IF ~HasRotAngles(cur)
                    \/ FindNextGate(cur.wires, Tail(list_copy)) = 0
             THEN FuseLoop(Apply(q, cur), Tail(list_copy))
             ELSE LET m == FuseNext(cur, <<cur>>, list_copy)
                  IN  FuseLoop(IF FusedToIdentity(m.fused) THEN q
                               ELSE New(q, "Rot", cur.wires,
                                        FusedAngles(m.fused)),
                               Tail(m.list_copy))

single_qubit_fusion(t, next) ==
    ApplyAll(FuseLoop(Queue(<<>>, next), t.operations), t.measurements)

\* circuit(x, weights): RX(x[wire]) and Hadamard on every wire, Rot(weights
\* [wire]) on every wire, a ring of CNOTs
CircuitGates(x, weights) ==
    [i \in 1..(2 * NumWires) |->
        IF i % 2 = 1
        THEN [name |-> "RX", wires |-> <<(i - 1) \div 2>>,
              data |-> <<x[(i + 1) \div 2]>>]
        ELSE [name |-> "Hadamard", wires |-> <<(i - 1) \div 2>>, data |-> <<>>]]
    \o [w \in 1..NumWires |->
           [name |-> "Rot", wires |-> <<w - 1>>, data |-> weights[w]]]
    \o [w \in 1..NumWires |->
           [name |-> "CNOT", wires |-> <<w - 1, w % NumWires>>, data |-> <<>>]]

\* return qml.expval(PauliY(0) @ ... @ PauliY(4))
CircuitMeas ==
    <<[rtype |-> "expval", wires |-> [w \in 1..NumWires |-> w - 1]]>>

\* x of the notebook, or zeros
XValues ==
    {[w \in 1..NumWires |-> Rat(w, 10)], [w \in 1..NumWires |-> Rat(0, 1)]}

\* the weights of the notebook, or zeros
WeightValues ==
    {<<<<Rat(-28371043, 100000000), Rat(93681631, 100000000),
         Rat(-100500712, 100000000)>>,
       <<Rat(141650132, 100000000), Rat(105433029, 100000000),
         Rat(91081303, 100000000)>>,
       <<Rat(-42656701, 100000000), Rat(98618842, 100000000),
         Rat(-55753227, 100000000)>>,
       <<Rat(1532506, 100000000), Rat(-207856628, 100000000),
         Rat(55483725, 100000000)>>,
       <<Rat(91423682, 100000000), Rat(57445956, 100000000),
         Rat(72278638, 100000000)>>>>,
     [w \in 1..NumWires |-> <<Rat(0, 1), Rat(0, 1), Rat(0, 1)>>]}

InitCompile ==
    /\ \E x \in XValues, weights \in WeightValues :
          /\ tape = Record(CircuitGates(x, weights), CircuitMeas)
          /\ nextId = 4 * NumWires + 2
    /\ TIdle
    /\ ZIdle

\* jax.grad(qnode)(x, weights) with diff_method="parameter-shift": the tape
\* of the QNode is run once, then its shifted tapes
GradTapes(t) == <<t>> \o param_shift(t)

\* jax.grad(original_qnode, argnums=(0, 1))(x, weights)
CallOriginalGrad ==
    /\ zpc = "start"
    /\ out' = tape
    /\ tapes' = GradTapes(tape)
    /\ call' = [fn |-> "original_qnode", arg |-> NaN]
    /\ zpc' = "executing"
    /\ UNCHANGED <<tape, inp, nextId, depth, dag, arg_after, aliased, queued,
                   pipeline>>
    /\ UNCHANGED <<scale_factors, branch_scales, processing_fn, results,
                   used_scales, fitted, attempted, executed, coeff_groupings>>

\* jax.grad(compiled_qnode, argnums=(0, 1))(x, weights): the quantum function
\* is qml.transforms.single_qubit_fusion()(circuit)
CallCompiledGrad ==
    /\ zpc = "start"
    /\ LET q == single_qubit_fusion(tape, nextId)
       IN  /\ out' = TapeOf(q)
           /\ queued' = q.items
           /\ nextId' = q.next
           /\ tapes' = GradTapes(TapeOf(q))
    /\ inp' = tape
    /\ call' = [fn |-> "compiled_qnode", arg |-> NaN]
    /\ zpc' = "executing"
    /\ UNCHANGED <<tape, depth, dag, arg_after, aliased, pipeline>>
    /\ UNCHANGED <<scale_factors, branch_scales, processing_fn, results,
                   used_scales, fitted, attempted, executed, coeff_groupings>>

NextCompile ==
    \/ CallOriginalGrad
    \/ CallCompiledGrad
    \/ ExecuteShifted
    \/ GradReturn

SpecCompile == InitCompile /\ [][NextCompile]_vars

-----------------------------------------------------------------------------
(* Qiskit: gradient circuits extracted and transpiled *)

\* values of params for the circuit rx(p0), rx(p1): those of the notebook
\* (0.3, 0.4) and others
QiskitParams == {Rat(3, 10), Rat(2, 5), Rat(-1, 5), Rat(0, 1)}

\* circ.rx(p0, q[0]); circ.rx(p1, q[0]) with the parameters assigned
TwoRx(p) == DagTape(<<Op(1, "rx", <<0>>, <<p[1]>>), Op(2, "rx", <<0>>, <<p[2]>>)>>)

InitTranspile ==
    /\ \E p \in [1..2 -> QiskitParams] :
          /\ scale_factors = p
          /\ tape = TwoRx(p)
    /\ nextId = 3
    /\ TIdle
    /\ tapes = <<>>
    /\ branch_scales = <<>>
    /\ processing_fn = NoFn
    /\ results = <<>>
    /\ used_scales = <<>>
    /\ fitted = NoFit
    /\ attempted = <<>>
    /\ executed = <<>>
    /\ coeff_groupings = <<>>
    /\ zpc = "start"

\* Gradient(grad_method='param_shift').convert(operator=op, params=[p0, p1])
\* with the parameters assigned: a list with one sum per parameter, each of
\* two terms [measurement, circuit], the circuit shifted by +pi/2 and -pi/2
GradCircuits(circ) ==
    [i \in 1..2 |->
        [j \in 1..2 |-> <<"Z", Shifted(circ, i, IF j = 1 THEN 1 ELSE -1)>>]]

\* grad_circuits = grad.assign_parameters(...)
CallGradient ==
    /\ zpc = "start"
    /\ tapes' = GradCircuits(tape)
    /\ zpc' = "grad_circuits"
    /\ UNCHANGED <<tvars, scale_factors, branch_scales, processing_fn,
                   results, used_scales, fitted, attempted, executed,
                   coeff_groupings>>

\* extracted_grad_circuits = [grad_circuits[0][0][1].to_circuit(),
\*     grad_circuits[0][1][1].to_circuit(), grad_circuits[0][0][1].to_circuit(),
\*     grad_circuits[0][1][1].to_circuit()]
extracted(gc) == <<gc[1][1][2], gc[1][2][2], gc[1][1][2], gc[1][2][2]>>

ExtractGradCircuits ==
    /\ zpc = "grad_circuits"
    /\ executed' = extracted(tapes)
    /\ zpc' = "extracted"
    /\ UNCHANGED <<tvars, scale_factors, tapes, branch_scales, processing_fn,
                   results, used_scales, fitted, attempted, coeff_groupings>>

\* transpile(circuit, optimization_level=2): the two rx gates become one
\* gate whose angle is the sum of theirs, the shift included
Transpiled(c) ==
    [name |-> "u3",
     sum |-> Add(c.tape.operations[1].data[1], c.tape.operations[2].data[1]),
     mult |-> c.mult]

\* transpile(extracted_grad_circuits, optimization_level=2), one circuit of
\* the list after the other
TranspileNext ==
    /\ zpc = "extracted"
    /\ Len(results) < Len(executed)
    /\ results' = Append(results, Transpiled(executed[Len(results) + 1]))
    /\ UNCHANGED <<tvars, scale_factors, tapes, branch_scales, processing_fn,
                   used_scales, fitted, attempted, executed, coeff_groupings,
                   zpc>>

NextTranspile ==
    \/ CallGradient
    \/ ExtractGradCircuits
    \/ TranspileNext

SpecTranspile == InitTranspile /\ [][NextTranspile]_vars

-----------------------------------------------------------------------------
(* 3.3.1: the step size of the finite-difference gradient is optimised *)

\* In this part `inp' holds the optimiser's variables [x, h], `out' the
\* gradients of the iteration [x_grad, h_grad], `call' the last call the
\* loop made with the [x, h] it passed, `executed' the last evaluation of
\* finite_diff [h, g1], `results' is h_track, `depth' the loop counter i and
\* `zpc' the position in the loop body.

\* a < b for two finite numbers; the integer parts are compared first
Less(a, b) ==
    LET fa == a.n \div a.d
        fb == b.n \div b.d
    IN  IF fa # fb THEN fa < fb
        ELSE (a.n - fa * a.d) * b.d < (b.n - fb * b.d) * a.d

\* np.clip(a, a_min, a_max) = minimum(maximum(a, a_min), a_max): nan stays nan
Clip(a, a_min, a_max) ==
    IF a.kind = "nan" THEN NaN
    ELSE IF a.kind = "inf" THEN (IF a.n > 0 THEN a_max ELSE a_min)
    ELSE IF Less(a, a_min) THEN a_min
    ELSE IF Less(a_max, a) THEN a_max
    ELSE a

\* 2 * np.pi, as the fraction 44/7
TwoPi == Rat(44, 7)

\* qml.GradientDescentOptimizer(stepsize=0.1)
Stepsize == Rat(1, 10)

\* h = np.array(1e-7), x = np.array(0.1)
InitOptimise ==
    /\ inp = [x |-> Rat(1, 10), h |-> Rat(1, 10000000)]
    /\ out = [x_grad |-> Rat(0, 1), h_grad |-> Rat(0, 1)]
    /\ call = NoCall
    /\ depth = 0
    /\ results = <<>>
    /\ executed = <<>>
    /\ zpc = "loop"
    /\ tape = EmptyTape
    /\ nextId = 1
    /\ dag = <<>>
    /\ arg_after = EmptyTape
    /\ aliased = FALSE
    /\ queued = <<>>
    /\ pipeline = <<>>
    /\ scale_factors = <<>>
    /\ tapes = <<>>
    /\ branch_scales = <<>>
    /\ processing_fn = NoFn
    /\ used_scales = <<>>
    /\ fitted = NoFit
    /\ attempted = <<>>
    /\ coeff_groupings = <<>>

\* one shot of circuit(x): an eigenvalue of X(0) @ X(1); the expectation is
\* (1 + cos x) / 2, so that at x = 0 every shot gives 1
Shot(x) == IF x = Rat(0, 1) THEN {1} ELSE {-1, 1}

\* the device samples the state built with the parameter x: a parameter that
\* is not finite gives probabilities that are nan, which the sampler rejects
Samples(x) == IsNum(x)

\* np.mean(g1)
Mean(s) == Div(Sum(s, 1), Int2Num(Len(s)))

\* qml.gradients.finite_diff(circuit, h=h)(x, shots=[(1, N)]): per shot the
\* forward difference (circuit(x + h) - circuit(x)) / h
finite_diff(h, shifted, unshifted) ==
    [h |-> h,
     g1 |-> [k \in 1..Len(shifted) |->
                Div(Int2Num(shifted[k] - unshifted[k]), h)]]

\* np.var(g1) is 0 when all of g1 is one finite value and nan when a value
\* of g1 is not finite
Constant(s) == \A k \in 1..Len(s) : s[k] = s[1]
AllFinite(s) == \A k \in 1..Len(s) : IsNum(s[k])

\* the derivative of np.var(g1) / N with respect to h where the shots differ:
\* it depends on the shots drawn
VarSlopes == {Rat(-60, 1), Rat(-1, 1)}

\* qml.grad(cost, argnum=1)(x, h), cost = circuit(x) + np.var(g1) / N + h
HGrads(g1) ==
    IF ~AllFinite(g1) THEN {NaN}
    ELSE IF Constant(g1) THEN {Rat(1, 1)}
    ELSE {Add(Rat(1, 1), s) : s \in VarSlopes}

\* opt.apply_grad([x_grad, h_grad], (x, h)): x - stepsize * grad for each
apply_grad(grad, args) ==
    [x |-> Sub(args.x, Mul(Stepsize, grad.x_grad)),
     h |-> Sub(args.h, Mul(Stepsize, grad.h_grad))]

\* for i in range(300): h = np.clip(h, 0, 5); x = np.clip(x, 0, 2 * np.pi);
\* h_track.append(h); cost_track.append(circuit(x))
LoopHead ==
    /\ zpc = "loop"
    /\ depth < MaxIters
    /\ LET clipped == [x |-> Clip(inp.x, Rat(0, 1), TwoPi),
                       h |-> Clip(inp.h, Rat(0, 1), Rat(5, 1))]
       IN  /\ inp' = clipped
           /\ results' = Append(results, clipped.h)
           /\ call' = [fn |-> "circuit", arg |-> clipped]
           /\ zpc' = IF Samples(clipped.x) THEN "tracked" ELSE "raised"
    /\ UNCHANGED <<tape, out, nextId, depth, dag, arg_after, aliased, queued,
                   pipeline>>
    /\ UNCHANGED <<scale_factors, tapes, branch_scales, processing_fn,
                   used_scales, fitted, attempted, executed, coeff_groupings>>

\* loss, x_grad = cost_and_grad(x, h): g1 from finite_diff with the step h,
\* np.mean(g1) returned as the gradient
CostAndGrad ==
    /\ zpc = "tracked"
    /\ call' = [fn |-> "cost_and_grad", arg |-> inp]
    /\ IF Samples(Add(inp.x, inp.h))
       THEN \E shifted \in [1..MaxShots -> Shot(Add(inp.x, inp.h))],
               unshifted \in [1..MaxShots -> Shot(inp.x)] :
               /\ executed' = finite_diff(inp.h, shifted, unshifted)
               /\ out' = [out EXCEPT !.x_grad = Mean(executed'.g1)]
               /\ zpc' = "cost"
       ELSE /\ executed' = [h |-> inp.h, g1 |-> <<>>]
            /\ zpc' = "raised"
            /\ UNCHANGED out
    /\ UNCHANGED <<tape, inp, nextId, depth, dag, arg_after, aliased, queued,
                   pipeline>>
    /\ UNCHANGED <<scale_factors, tapes, branch_scales, processing_fn,
                   results, used_scales, fitted, attempted, coeff_groupings>>

\* h_grad = qml.grad(cost, argnum=1)(x, h): cost runs cost_and_grad again
GradCost ==
    /\ zpc = "cost"
    /\ call' = [fn |-> "grad(cost)", arg |-> inp]
    /\ \E shifted \in [1..MaxShots -> Shot(Add(inp.x, inp.h))],
          unshifted \in [1..MaxShots -> Shot(inp.x)] :
          /\ executed' = finite_diff(inp.h, shifted, unshifted)
          /\ \E g \in HGrads(executed'.g1) : out' = [out EXCEPT !.h_grad = g]
    /\ zpc' = "grads"
    /\ UNCHANGED <<tape, inp, nextId, depth, dag, arg_after, aliased, queued,
                   pipeline>>
    /\ UNCHANGED <<scale_factors, tapes, branch_scales, processing_fn,
                   results, used_scales, fitted, attempted, coeff_groupings>>

\* x, h = opt.apply_grad([x_grad, h_grad], (x, h)), and the next i
ApplyGrad ==
    /\ zpc = "grads"
    /\ inp' = apply_grad(out, inp)
    /\ depth' = depth + 1
    /\ zpc' = "loop"
    /\ UNCHANGED <<tape, out, call, nextId, dag, arg_after, aliased, queued,
                   pipeline>>
    /\ UNCHANGED <<scale_factors, tapes, branch_scales, processing_fn,
                   results, used_scales, fitted, attempted, executed,
                   coeff_groupings>>

NextOptimise ==
    \/ LoopHead
    \/ CostAndGrad
    \/ GradCost
    \/ ApplyGrad

SpecOptimise == InitOptimise /\ [][NextOptimise]_vars

-----------------------------------------------------------------------------
(* Properties *)

\* an operator or measurement without its object identity
Val(x) == [x EXCEPT !.id = 0]

Vals(s) == [i \in 1..Len(s) |-> Val(s[i])]

ValTape(t) == [operations |-> Vals(t.operations),
               measurements |-> Vals(t.measurements)]

Names(s) == {s[i].name : i \in 1..Len(s)}

Ids(s) == {s[i].id : i \in 1..Len(s)}

\* k is an integer nearest to the finite number x
IsNearest(k, x) == 2 * Abs(k * x.d - x.n) <= x.d

\* entry j of O, then k times (adjoints of O reversed, then O)
FoldedAt(O, j) ==
    LET n == Len(O)
        block == (j - 1) \div n
        p == ((j - 1) % n) + 1
    IN  IF block % 2 = 0 THEN Val(O[p])
        ELSE LET x == O[n + 1 - p]
             IN  Val([x EXCEPT !.data = AdjointData(x.name, x.data)])

IsFolded(R, O, k) ==
    /\ Len(R) = (2 * k + 1) * Len(O)
    /\ \A j \in 1..Len(R) : Val(R[j]) = FoldedAt(O, j)

\* C1: unitary_folding with a scale factor whose fold count
\* k = round((scale_factor - 1)/2) is a count (k >= 0, that is
\* scale_factor >= 0) returns the operations O of its input, then k times
\* (the adjoints of O in reversed order, then O), (2k+1)*n gates in all,
\* followed by the measurements of the input.
C1_FoldedSequence ==
    (call.fn = "unitary_folding" /\ call.arg.n >= 0) =>
        \E k \in 0..(call.arg.n \div call.arg.d + 1) :
            /\ IsNearest(k, Div(Sub(call.arg, Int2Num(1)), Int2Num(2)))
            /\ IsFolded(out.operations, inp.operations, k)
            /\ Vals(out.measurements) = Vals(inp.measurements)

\* [RX(0.3), CNOT] folded with scale factor 3.0
C1_Witness ==
    /\ call = [fn |-> "unitary_folding", arg |-> Rat(3, 1)]
    /\ Vals(inp.operations) =
          <<Op(0, "RX", <<0>>, <<Rat(3, 10)>>), Op(0, "CNOT", <<0, 1>>, <<>>)>>
    /\ Vals(out.operations) =
          <<Op(0, "RX", <<0>>, <<Rat(3, 10)>>), Op(0, "CNOT", <<0, 1>>, <<>>),
            Op(0, "CNOT", <<0, 1>>, <<>>), Op(0, "RX", <<0>>, <<Rat(-3, 10)>>),
            Op(0, "RX", <<0>>, <<Rat(3, 10)>>), Op(0, "CNOT", <<0, 1>>, <<>>)>>
    /\ Len(out.measurements) = 1
    /\ out.measurements = inp.measurements

\* C8: every transform returns a tape whose measurements are the
\* measurements of its input, the same objects in the same order.
C8_MeasurementsPreserved ==
    call.fn \in {"unitary_folding", "convert_cnots", "qfunc_convert_cnots",
                 "overrotate_rx", "square_root_rx"}
        => out.measurements = inp.measurements

C8_Witness ==
    /\ call.fn = "square_root_rx"
    /\ "RX" \in Names(inp.operations)
    /\ Len(inp.measurements) = 2
    /\ out.measurements = inp.measurements

\* the operation name a transform rewrites
Matched(fn) ==
    IF fn \in {"convert_cnots", "qfunc_convert_cnots"} THEN "CNOT" ELSE "RX"

\* C9: convert_cnots on a tape without CNOT, and overrotate_rx and
\* square_root_rx on a tape without RX, return the input operation for
\* operation; in general the operations whose name the transform does not
\* match are the ones passed through, unchanged and in their order.
C9_PassThrough ==
    call.fn \in {"convert_cnots", "qfunc_convert_cnots", "overrotate_rx",
                 "square_root_rx"} =>
        LET Unmatched(x) == x.name # Matched(call.fn)
            FromInput(x) == x.id \in Ids(inp.operations)
        IN  /\ Matched(call.fn) \notin Names(inp.operations) => out = inp
            /\ SelectSeq(out.operations, FromInput)
                  = SelectSeq(inp.operations, Unmatched)

C9_Witness ==
    /\ call.fn = "overrotate_rx"
    /\ Len(inp.operations) = 2
    /\ "RX" \notin Names(inp.operations)
    /\ out = inp

CnotsBefore(O, i) == Cardinality({j \in 1..(i - 1) : O[j].name = "CNOT"})

\* C10: convert_cnots puts Hadamard(target), CZ(control, target),
\* Hadamard(target) at the place of every CNOT(control, target) and keeps the
\* other operations in their order, n + 2 * (number of CNOTs) operations in
\* all; the single_tape_transform and the qfunc_transform versions return the
\* same sequence.
C10_ConvertCnots ==
    call.fn \in {"convert_cnots", "qfunc_convert_cnots"} =>
        LET O == inp.operations
            R == out.operations
        IN  /\ Len(R) = Len(O) + 2 * CnotsBefore(O, Len(O) + 1)
            /\ \A i \in 1..Len(O) :
                  LET p == i + 2 * CnotsBefore(O, i)
                      c == O[i].wires[1]
                  IN  IF O[i].name = "CNOT"
                      THEN /\ Val(R[p]) = Op(0, "Hadamard", <<O[i].wires[2]>>, <<>>)
                           /\ Val(R[p + 1]) = Op(0, "CZ", <<c, O[i].wires[2]>>, <<>>)
                           /\ Val(R[p + 2]) = Op(0, "Hadamard", <<O[i].wires[2]>>, <<>>)
                      ELSE R[p] = O[i]
            /\ TapeOf(convert_cnots(inp, nextId))
                  = TapeOf(qfunc_convert_cnots(inp, nextId))

C10_Witness ==
    /\ call.fn = "qfunc_convert_cnots"
    /\ Len(inp.operations) = 2
    /\ inp.operations[1].name = "CNOT"
    /\ inp.operations[2].name = "RX"
    /\ Len(out.operations) = 4
    /\ out.operations[4] = inp.operations[2]

Transforms == {"unitary_folding", "convert_cnots", "qfunc_convert_cnots",
               "overrotate_rx", "square_root_rx", "OverrotateRX.run"}

\* C11: no transform writes to its input: after OverrotateRX.run,
\* overrotate_rx, convert_cnots, square_root_rx or unitary_folding the
\* sequence that was passed in has the operations and parameters it had
\* before the call, and the result is a new sequence, not the one passed in.
C11_NoInputMutation ==
    call.fn \in Transforms => (arg_after = inp /\ ~aliased)

TapeTransforms == Transforms \ {"OverrotateRX.run"}

\* no measurement is queued before a gate
GatesFirst(s) == \A i, j \in 1..Len(s) : (IsMeas(s[i]) /\ IsOp(s[j])) => i > j

\* C12: given a tape whose measurements follow its gates, every transform
\* (unitary_folding for any fold count, convert_cnots, overrotate_rx,
\* square_root_rx) queues all its gates before its first measurement, so the
\* tape it returns lists the queued objects in the order they were queued.
C12_MeasurementsLast ==
    (call.fn \in TapeTransforms /\ GatesFirst(Circuit(inp))) =>
        /\ GatesFirst(queued)
        /\ Circuit(out) = queued

\* a tape with one gate and two measurements, folded twice
C12_Witness ==
    /\ call = [fn |-> "unitary_folding", arg |-> Rat(5, 1)]
    /\ Len(inp.operations) = 1
    /\ Len(inp.measurements) = 2
    /\ Len(queued) = 7
    /\ IsOp(queued[5])
    /\ IsMeas(queued[6])

Rotations == {"RX", "RY", "RZ"}

SelfAdjoint == {"CNOT", "CZ", "Hadamard"}

\* b is the adjoint of a: the same gate on the same wires, with the opposite
\* angle for a rotation
IsAdjointPair(a, b) ==
    /\ a.name = b.name
    /\ a.wires = b.wires
    /\ IF a.name \in Rotations
       THEN Add(a.data[1], b.data[1]) = Int2Num(0)
       ELSE a.name \in SelfAdjoint /\ a.data = b.data

\* entries n and n+1 of R cancel, then entries n-1 and n+2 which have become
\* adjacent, and so on down to entries 1 and 2n
FoldCancels(R, n) == \A p \in 1..n : IsAdjointPair(R[n + 1 - p], R[n + p])

\* cancel adjacent pairs at the end of the first n entries of R for as long
\* as more than n entries are left
RECURSIVE Cancelled(_, _)
Cancelled(R, n) ==
    IF n = 0 \/ Len(R) < 3 * n \/ ~FoldCancels(R, n) THEN R
    ELSE Cancelled(SubSeq(R, 2 * n + 1, Len(R)), n)

\* every gate parameter is a finite number
Finite(s) == \A i \in 1..Len(s) : \A j \in 1..Len(s[i].data) : IsNum(s[i].data[j])

\* C13: for a tape with finite gate parameters and any scale factor, the
\* operations returned by unitary_folding reduce to the operations of the
\* input when adjacent pairs (operation, its adjoint) are cancelled, so the
\* folded tape implements the unitary of the input.
C13_FoldsCancel ==
    (call.fn = "unitary_folding" /\ Finite(inp.operations)) =>
        Vals(Cancelled(out.operations, Len(inp.operations)))
            = Vals(inp.operations)

\* [RX(a), CNOT] folded twice: ten gates that cancel to two
C13_Witness ==
    /\ call = [fn |-> "unitary_folding", arg |-> Rat(5, 1)]
    /\ Names(inp.operations) = {"RX", "CNOT"}
    /\ Len(out.operations) = 10
    /\ Vals(Cancelled(out.operations, 2)) = Vals(inp.operations)

\* the parameters of y are those of x, or their opposites when asked
SameData(y, x, negated) ==
    /\ Len(y.data) = Len(x.data)
    /\ \A j \in 1..Len(x.data) :
          y.data[j] = (IF negated THEN Neg(x.data[j]) ELSE x.data[j])

\* C14: in the output of unitary_folding the parameters of gate j are the
\* parameters of the input operation it was made from, negated at most (in
\* an adjoint block, for a rotation); the scale factor reaches the output
\* only through the fold count: two scale factors with the same fold count
\* give the same tape.
C14_ScaleOnlyCounts ==
    call.fn = "unitary_folding" =>
        LET O == inp.operations
            R == out.operations
            n == Len(O)
        IN  /\ \A j \in 1..Len(R) :
                  LET block == (j - 1) \div n
                      p == IF block % 2 = 0 THEN ((j - 1) % n) + 1
                           ELSE n - ((j - 1) % n)
                  IN  SameData(R[j], O[p],
                               block % 2 = 1 /\ O[p].name \in Rotations)
            /\ \A s \in ScaleValues :
                  NumFolds(s) = NumFolds(call.arg) =>
                      ValTape(TapeOf(unitary_folding(inp, s, nextId)))
                          = ValTape(out)

\* scale factor 2.5 rounds to one fold, as 3.0 does
C14_Witness ==
    /\ call = [fn |-> "unitary_folding", arg |-> Rat(5, 2)]
    /\ Len(inp.operations) = 2
    /\ inp.operations[1].name = "RX"
    /\ Len(out.operations) = 6
    /\ out.operations[6].data = inp.operations[2].data
    /\ out.operations[4].data = <<Neg(inp.operations[1].data[1])>>
    /\ ValTape(out) = ValTape(TapeOf(unitary_folding(inp, Rat(3, 1), nextId)))

\* t_n(...t_2(t_1(t))...): the transforms applied one after the other, each
\* to the tape the one before it returned
RECURSIVE Composed(_, _, _, _)
Composed(t, pl, n, next) ==
    IF n = 0 THEN [tape |-> t, next |-> next]
    ELSE LET r == Composed(t, pl, n - 1, next)
             q == TapeFn(pl[n].fn, r.tape, pl[n].arg, r.next)
         IN  [tape |-> TapeOf(q), next |-> q.next]

-----------------------------------------------------------------------------
(* Properties of fit_zne and zne *)

RECURSIVE Total(_)
Total(a) == IF a = <<>> THEN Int2Num(0) ELSE Add(Total(Tail(a)), Head(a))

\* the closed-form least-squares slope and intercept of e over s
OlsSlope(s, e) ==
    LET N == Int2Num(Len(e))
        se == [i \in 1..Len(s) |-> Mul(s[i], e[i])]
        ss == [i \in 1..Len(s) |-> Mul(s[i], s[i])]
    IN  Div(Sub(Mul(N, Total(se)), Mul(Total(s), Total(e))),
            Sub(Mul(N, Total(ss)), Mul(Total(s), Total(s))))

OlsIntercept(s, e) ==
    Div(Sub(Total(e), Mul(OlsSlope(s, e), Total(s))), Int2Num(Len(e)))

\* N * sum(s_i^2) - (sum s_i)^2, times the squared denominators: an integer
\* that is zero exactly when the denominator of the slope is
Degenerate(s) ==
    LET ss == [i \in 1..Len(s) |-> Mul(s[i], s[i])]
    IN  Sub(Mul(Int2Num(Len(s)), Total(ss)), Mul(Total(s), Total(s))).n = 0

\* the residuals e_i - m * s_i - b
Residuals(s, e, m, b) ==
    [i \in 1..Len(s) |-> Sub(Sub(e[i], Mul(m, s[i])), b)]

\* C2: for equal-length inputs with a non-zero denominator fit_zne returns
\* (sum e - slope * sum s) / N with slope = (N sum(s e) - sum s sum e) /
\* (N sum(s^2) - (sum s)^2), and that value is the least-squares intercept:
\* with this slope and intercept the residuals sum to zero and are orthogonal
\* to the scale factors.
C2_OlsIntercept ==
    (zpc = "combined" /\ Len(used_scales) = Len(results) /\ Len(results) > 0
        /\ ~Degenerate(used_scales)) =>
        LET m == OlsSlope(used_scales, results)
            r == Residuals(used_scales, results, m, fitted)
        IN  /\ fitted = OlsIntercept(used_scales, results)
            /\ Total(r) = Int2Num(0)
            /\ Total([i \in 1..Len(r) |-> Mul(used_scales[i], r[i])]) = Int2Num(0)

\* energies off any line: scale factors [1, 2, 3], energies [-1, 3.5, 0]
C2_Witness ==
    /\ zpc = "combined"
    /\ used_scales = <<Rat(1, 1), Rat(2, 1), Rat(3, 1)>>
    /\ results = <<Rat(-1, 1), Rat(7, 2), Rat(0, 1)>>
    /\ fitted = Rat(-1, 6)

\* C3: when the energies are exactly m * s_i + b and at least two scale
\* factors differ, fit_zne returns b.
C3_ExactOnLines ==
    zpc = "combined" =>
        \A m \in Slopes, b \in Intercepts :
            (/\ Len(used_scales) = Len(results)
             /\ \E i, j \in 1..Len(used_scales) : used_scales[i] # used_scales[j]
             /\ results = Linear(m, b, used_scales))
                => fitted = b

\* scale factors [1,3,5,7,9] with e = 2 s + 5 give 5
C3_Witness ==
    /\ zpc = "combined"
    /\ used_scales = NotebookScales
    /\ results = <<Rat(7, 1), Rat(11, 1), Rat(15, 1), Rat(19, 1), Rat(23, 1)>>
    /\ fitted = Rat(5, 1)

AllEqual(s) == \A i, j \in 1..Len(s) : s[i] = s[j]

\* C4: with all scale factors identical fit_zne raises an error
\* (DegenerateFitError) instead of returning nan or an infinity.
C4_DegenerateFitRaises ==
    (zpc = "combined" /\ Len(used_scales) = Len(results)
        /\ Len(used_scales) >= 2 /\ AllEqual(used_scales))
        => fitted.kind = "error"

\* C5: zne returns one branch per scale factor, and branch i is the
\* mitigation transform applied to the input tape with scale factor i (as
\* long as the caller has assigned to no operation of a tape).
C5_OneBranchPerScale ==
    zpc \notin {"start", "modified"} =>
        /\ Len(tapes) = Len(branch_scales)
        /\ \A i \in 1..Len(tapes) :
              ValTape(tapes[i])
                 = ValTape(TapeOf(TapeFn(call.fn, tape, branch_scales[i], nextId)))

\* [RX(0.3), CNOT] with scale factors [1.0, 3.0, 5.0]: three branches of
\* 2, 6 and 10 gates
C5_Witness ==
    /\ zpc = "forked"
    /\ call.fn = "unitary_folding"
    /\ branch_scales = <<Rat(1, 1), Rat(3, 1), Rat(5, 1)>>
    /\ Len(tape.operations) = 2
    /\ Len(tapes) = 3
    /\ Len(tapes[1].operations) = 2
    /\ Len(tapes[2].operations) = 6
    /\ Len(tapes[3].operations) = 10

\* C6: the combiner of a zne call with n scale factors, given a list of
\* results of another length, does not return a fitted value.
C6_CombinerArity ==
    (zpc = "combined" /\ Len(results) # Len(branch_scales))
        => fitted.kind # "num"

\* C7: the combiner pairs result i with the scale factor branch i was built
\* with, whatever was done to the caller's list in between.
C7_CombinerScales ==
    zpc = "combined" => used_scales = branch_scales

\* sum over j of c[j] * v[j]
RECURSIVE Weighted(_, _, _)
Weighted(c, v, j) ==
    IF j = 0 THEN Int2Num(0) ELSE Add(Weighted(c, v, j - 1), Mul(c[j], v[j]))

FoldCount(scale) == IF NumFolds(scale) > 0 THEN NumFolds(scale) ELSE 0

\* C16: a QNode under zne(unitary_folding, scale_factors) forks into one
\* folded branch per scale factor; each branch is executed on its own, in
\* order; what the device does to a tape afterwards (splitting a Hamiltonian
\* into one tape per term) is done to every branch separately and its
\* combiner (the weighted sum of the terms) runs first, per branch; fit_zne
\* runs once, last, on the branch results in the order of the scale factors.
C16_BatchForks ==
    zpc \in {"executing", "returned"} =>
        /\ Len(tapes) = Len(branch_scales)
        /\ \A i \in 1..Len(tapes) :
              Len(tapes[i].operations)
                 = (2 * FoldCount(branch_scales[i]) + 1) * Len(tape.operations)
        /\ Len(executed) = Len(results)
        /\ Len(executed) <= Len(tapes)
        /\ \A i \in 1..Len(executed) :
              LET x == executed[i]
              IN  /\ x.branch = i
                  /\ \A j \in 1..Len(x.tapes) :
                        x.tapes[j].operations = tapes[i].operations
                  /\ IF MeasuresHamiltonian(tape)
                     THEN LET H == tape.measurements[1].data[1]
                          IN  /\ Len(x.tapes) = Len(H.ops)
                              /\ \A j \in 1..Len(H.ops) :
                                    Vals(x.tapes[j].measurements)
                                       = <<Expval(0, Pauli(H.ops[j]))>>
                              /\ results[i] = Weighted(H.coeffs, x.values,
                                                       Len(H.ops))
                     ELSE /\ x.tapes = <<tapes[i]>>
                          /\ results[i] = x.values[1]
        /\ zpc = "returned" =>
              /\ Len(executed) = Len(tapes)
              /\ used_scales = branch_scales
              /\ (Len(results) > 0 /\ ~Degenerate(branch_scales)) =>
                    fitted = OlsIntercept(branch_scales, results)

\* scale factors [1.0, 3.0, 5.0] on a circuit that measures a Hamiltonian
\* of two terms: three branches, two device tapes each, one fit
C16_Witness ==
    /\ zpc = "returned"
    /\ MeasuresHamiltonian(tape)
    /\ branch_scales = <<Rat(1, 1), Rat(3, 1), Rat(5, 1)>>
    /\ Len(executed) = 3
    /\ Len(executed[3].tapes) = 2
    /\ executed[2].values = <<Rat(1, 1), Rat(2, 1)>>
    /\ results = <<Rat(3, 1), Rat(5, 1), Rat(6, 1)>>
    /\ IsNum(fitted)

\* C17: when the mitigation transform fails for one of the scale factors
\* the zne call raises: no list of branch tapes and no combiner reach the
\* caller, nothing is executed or fitted, and tape_fn was called once for
\* each scale factor up to the failing one and never again.
C17_ZneRaises ==
    (zpc # "start" /\ call.fn = "unitary_folding"
        /\ \E i \in 1..Len(scale_factors) : ~IsNum(scale_factors[i])) =>
        /\ zpc = "raised"
        /\ tapes = <<>>
        /\ processing_fn.fn = "none"
        /\ results = <<>>
        /\ executed = <<>>
        /\ fitted = NoFit
        /\ \E i \in 1..Len(scale_factors) :
              /\ ~IsNum(scale_factors[i])
              /\ \A j \in 1..(i - 1) : IsNum(scale_factors[j])
              /\ attempted = SubSeq(scale_factors, 1, i)

\* scale factors [1.0, nan, 3.0]: the second call of unitary_folding fails
C17_Witness ==
    /\ zpc = "raised"
    /\ call.fn = "unitary_folding"
    /\ scale_factors = <<Rat(1, 1), NaN, Rat(3, 1)>>
    /\ attempted = <<Rat(1, 1), NaN>>
    /\ tapes = <<>>

\* the branches other than b, and the input tape, are what they were
OthersKept(b) ==
    /\ tape' = tape
    /\ \A c \in 1..Len(tapes) : c # b => tapes'[c] = tapes[c]

\* C18: the branch tapes returned by zne share no mutable state: assigning a
\* parameter of an operation of one branch changes that branch only, neither
\* another branch nor the input tape.
C18_BranchesIndependent ==
    [][(zpc = "forked" /\ zpc' = "modified") =>
           \E b \in 1..Len(tapes) : OthersKept(b)]_vars

\* a circuit of two RX gates on the same wire
TwoAdjacentRX ==
    /\ Len(tape.operations) = 2
    /\ tape.operations[1].name = "RX"
    /\ tape.operations[2].name = "RX"
    /\ tape.operations[1].wires = tape.operations[2].wires

AngleSum == Add(tape.operations[1].data[1], tape.operations[2].data[1])

\* the merged circuit is one RX on the wire of the two, with their sum
MergedToOne ==
    /\ Len(out.operations) = 1
    /\ out.operations[1].name = "RX"
    /\ out.operations[1].wires = tape.operations[1].wires
    /\ out.operations[1].data = <<AngleSum>>

\* the shifted tapes are those of the given circuit, +pi/2 then -pi/2 for
\* each of its parameters in turn, and each has been run once
RunShifts(t, n) ==
    /\ Len(executed) = 2 * n
    /\ \A k \in 1..(2 * n) :
          executed[k] = Shifted(t, (k + 1) \div 2, IF k % 2 = 1 THEN 1 ELSE -1)

MeasuredH == tape.measurements[1].data[1]

\* one tape per term, in the order of the terms, on the gates of the input
OneTapePerTerm ==
    /\ Len(tapes) = Len(MeasuredH.ops)
    /\ \A i \in 1..Len(tapes) :
          /\ tapes[i].operations = tape.operations
          /\ Len(tapes[i].measurements) = 1
          /\ tapes[i].measurements[1].rtype = "expval"
          /\ tapes[i].measurements[1].data = <<Pauli(MeasuredH.ops[i])>>

\* the value of the processing function is the sum of coefficient * result
CombinedWithCoeffs ==
    zpc = "returned" =>
        fitted = Sum([i \in 1..Len(results) |->
                        Mul(MeasuredH.coeffs[i], results[i][1])], 1)

\* no two terms commute qubit-wise
NoTwoCommute ==
    \A i, j \in 1..Len(MeasuredH.ops) :
        i # j => ~QWC(MeasuredH.ops[i], MeasuredH.ops[j])

OneAfterEveryGate ==
    /\ Len(out.operations) = 2 * Len(inp.operations)
    /\ \A i \in 1..Len(inp.operations) :
          /\ out.operations[2 * i - 1] = inp.operations[i]
          /\ out.operations[2 * i].name = "AmplitudeDamping"
          /\ out.operations[2 * i].data = <<call.arg>>
          /\ Len(out.operations[2 * i].wires) = 1
          /\ SharesWire(out.operations[2 * i].wires, inp.operations[i].wires)
    /\ out.measurements = inp.measurements

\* every gate acts on one wire and none is a state preparation
SingleWireGates ==
    \A i \in 1..Len(inp.operations) :
        Len(inp.operations[i].wires) = 1 /\ ~IsStatePrep(inp.operations[i])

\* C21 as stated: insert(AmplitudeDamping, gamma, position="all") puts exactly
\* one AmplitudeDamping(gamma) directly after every gate and leaves the
\* gates, their order and the measurements as they are: n gates become 2n
\* operations.
C21_OneDampingPerGate ==
    call.fn = "insert" => OneAfterEveryGate

\* C21 as amended: the same for a circuit whose gates act on one wire each
\* and are no state preparations.
C21_OneDampingPerSingleWireGate ==
    (call.fn = "insert" /\ SingleWireGates) => OneAfterEveryGate

\* the circuit of the notebook, RX(-0.6) S, run on the noisy device
C21_Witness ==
    /\ call = [fn |-> "insert", arg |-> Rat(1, 20)]
    /\ executed = <<out>>
    /\ Len(inp.operations) = 2
    /\ inp.operations[1].name = "RX"
    /\ inp.operations[2].name = "S"
    /\ Len(out.operations) = 4

\* a Qiskit instruction and a PennyLane operation are the same gate
SameGate(node, x) ==
    /\ node.name = QiskitName(x.name)
    /\ node.wires = x.wires
    /\ node.data = x.data

SameGates(nodes, ops) ==
    /\ Len(nodes) = Len(ops)
    /\ \A i \in 1..Len(ops) : SameGate(nodes[i], ops[i])

\* gate x with its angle raised when it is an RX
Overrotate(x, angle) ==
    IF x.name = "RX" THEN [x EXCEPT !.data = <<Add(x.data[1], angle)>>] ELSE x

\* [RX(p0 + t0), H, RY(0.1), RX(p1 + t1), H, RY(0.1)]
TwoSubroutines(p0, p1, t0, t1) ==
    <<[name |-> "RX", wires |-> <<0>>, data |-> <<Add(p0, t0)>>],
      [name |-> "Hadamard", wires |-> <<0>>, data |-> <<>>],
      [name |-> "RY", wires |-> <<0>>, data |-> <<Rat(1, 10)>>],
      [name |-> "RX", wires |-> <<0>>, data |-> <<Add(p1, t1)>>],
      [name |-> "Hadamard", wires |-> <<0>>, data |-> <<>>],
      [name |-> "RY", wires |-> <<0>>, data |-> <<Rat(1, 10)>>]>>

Gate(x) == [name |-> x.name, wires |-> x.wires, data |-> x.data]

\* C22: on the same circuit and with the same angle, OverrotateRX and
\* overrotate_rx give the same gate sequence: every RX(theta) is
\* RX(theta + angle) on its wire at its position, every other gate is as it
\* was; for two subroutine calls with their own transform parameters both
\* give [RX(p0 + t0), H, RY(0.1), RX(p1 + t1), H, RY(0.1)].
C22_SameGateSequence ==
    /\ Len(pipeline) = 2 =>
          /\ SameGates(dag, out.operations)
          /\ Len(out.operations) = Len(tape.operations)
          /\ \A i \in 1..Len(tape.operations) :
                Gate(out.operations[i])
                    = Gate(Overrotate(tape.operations[i], call.arg))
    /\ (tapes # <<>> /\ executed # <<>>) =>
          LET s == scale_factors
              expected == TwoSubroutines(s[1], s[2], s[3], s[4])
          IN  /\ SameGates(executed[1].operations, tapes[1].operations)
              /\ Len(tapes[1].operations) = Len(expected)
              /\ \A i \in 1..Len(expected) :
                    Gate(tapes[1].operations[i]) = expected[i]

\* [RX(0.3), Hadamard] overrotated by 0.1 in both frameworks, and the two
\* subroutine calls of the notebook's shape evaluated in both
C22_Witness ==
    /\ Len(pipeline) = 2
    /\ call.arg = Rat(1, 10)
    /\ Len(tape.operations) = 2
    /\ tape.operations[1].name = "RX"
    /\ tape.operations[1].data = <<Rat(3, 10)>>
    /\ dag[1].data = <<Rat(2, 5)>>
    /\ tapes # <<>>
    /\ executed # <<>>
    /\ scale_factors = <<Rat(3, 10), Rat(-1, 5), Rat(1, 10), Rat(1, 5)>>

\* the gates of the circuit that was run, by name
CountGates(name) ==
    Cardinality({i \in 1..Len(out.operations) : out.operations[i].name = name})

\* C23: a parameter-shift gradient runs the device 2 * P + 1 times, P being
\* the number of gate parameters of the executed circuit: 41 times for the
\* original circuit (5 RX and 5 Rot, P = 20) and 31 times once
\* single_qubit_fusion has made one Rot of the RX, Hadamard and Rot of each
\* wire (P = 15).
C23_ShiftExecutions ==
    (zpc = "returned" /\ call.fn \in {"original_qnode", "compiled_qnode"}) =>
        /\ Len(executed) = 2 * NumParams(out) + 1
        /\ executed[1] = out
        /\ call.fn = "original_qnode" =>
              /\ CountGates("RX") = 5
              /\ CountGates("Rot") = 5
              /\ NumParams(out) = 20
              /\ Len(executed) = 41
        /\ call.fn = "compiled_qnode" =>
              /\ CountGates("Rot") = 5
              /\ CountGates("CNOT") = 5
              /\ Len(out.operations) = 10
              /\ NumParams(out) = 15
              /\ Len(executed) = 31

\* the compiled QNode differentiated at the x and weights of the notebook
C23_Witness ==
    /\ zpc = "returned"
    /\ call.fn = "compiled_qnode"
    /\ tape.operations[1].data = <<Rat(1, 10)>>
    /\ tape.operations[11].data[1] = Rat(-28371043, 100000000)
    /\ Len(executed) = 31

\* how often circuit c is in the list
Occurrences(list, c) == Cardinality({k \in 1..Len(list) : list[k] = c})

\* C24: extracted_grad_circuits holds each of the four gradient circuits
\* exactly once: the plus and minus shift of p0 and the plus and minus shift
\* of p1.
C24_EachGradCircuitOnce ==
    zpc = "extracted" =>
        /\ Len(executed) = 4
        /\ \A i \in 1..2, j \in 1..2 : Occurrences(executed, tapes[i][j][2]) = 1

\* the scale factor is a finite number not above 2
UpToTwo(s) == IsNum(s) /\ s.n <= 2 * s.d

\* k is the integer nearest to x, the even one of the two when x lies half
\* way between them
RoundedHalfEven(k, x) ==
    /\ IsNearest(k, x)
    /\ 2 * Abs(k * x.d - x.n) = x.d => k % 2 = 0

C25_WitnessNegative ==
    /\ call = [fn |-> "unitary_folding", arg |-> Rat(-3, 1)]
    /\ NumFolds(call.arg) = -2
    /\ Len(inp.operations) = 2
    /\ Len(out.operations) = 2

\* a finite number between lo and hi, the ends included
InRange(a, lo, hi) == IsNum(a) /\ ~Less(a, lo) /\ ~Less(hi, a)

\* C26: in every iteration the x and h passed to circuit, cost_and_grad and
\* qml.grad(cost) lie in [0, 2*pi] and [0, 5], and every value appended to
\* h_track lies in [0, 5], whatever the previous gradient step produced
C26_ClippedIntoRanges ==
    /\ call.fn \in {"circuit", "cost_and_grad", "grad(cost)"} =>
           /\ InRange(call.arg.x, Rat(0, 1), TwoPi)
           /\ InRange(call.arg.h, Rat(0, 1), Rat(5, 1))
    /\ \A k \in 1..Len(results) : InRange(results[k], Rat(0, 1), Rat(5, 1))

\* C27: the step h that cost_and_grad passes to finite_diff is strictly
\* positive in every iteration, so that no quotient is divided by zero
C27_StepStrictlyPositive ==
    executed # <<>> => IsNum(executed.h) /\ executed.h.n > 0

====
